---- MODULE Spec2Model ----
(***************************************************************************)
(* A model of The-Beautiful-Game-Oracle's feature pipeline:                *)
(*   - pipelines/feature_store.py   FeatureCache, FeatureStore and the     *)
(*                                  derivation helpers                     *)
(*   - pipelines/notebook_catalog.py  dataset-version resolution           *)
(*   - analysis/build_league_results_v2.py  team view and rolling features *)
(*                                                                         *)
(* Conventions.                                                            *)
(*   A Python str is a sequence of one-character strings, so that          *)
(*   str.lower(), str.strip(), str.split("_"), str.isdigit() and the       *)
(*   regular expression (\d+) are computed character by character.         *)
(*   A number (a float cell of a DataFrame, a feature value) is a pair     *)
(*   <<n, d>> meaning n/d in lowest terms with d > 0; <<0, 0>> is NaN.     *)
(*   A Python dict is a sequence of <<key, value>> pairs with distinct     *)
(*   keys, in insertion order.  Python's None is the record NoneRec or an  *)
(*   empty sequence, as stated at each use.                                *)
(***************************************************************************)
EXTENDS Integers, Sequences, FiniteSets, TLC

VARIABLES
    rows,          \* the feature_cache table of the SQLite file (a set of rows)
    available,     \* whether sqlite3.connect on the cache file succeeds
    lastSet,       \* history: per four-part key, the arguments of the latest direct FeatureCache.set
    ret,           \* the latest FeatureCache call made directly and what it returned
    stores,        \* the FeatureStore instances: the fields __init__ assigns
    df,            \* per store, FeatureStore._df (NoneRec until the table is loaded)
    logged,        \* per store, FeatureStore._unknown_features_logged
    warnings,      \* per store, the feature names of its LOGGER.warning calls, in order
    last,          \* the latest fixture lookup: its arguments and its outcome
    ver,           \* dataset-version resolution: the inputs of __init__ and the version chosen
    leak,          \* two input tables and the features derived from each
    league,        \* build_league_results_v2: the match table and the tables built from it
    race,          \* two stores looking up one fixture: each lookup's position and result
    pub,           \* publish_model: the command line, the files and the run's position
    zs             \* _season_zscore: a column and its z-scores

cacheVars == <<rows, available, lastSet, ret>>
storeVars == <<stores, df, logged, warnings, last>>
vars == <<rows, available, lastSet, ret, stores, df, logged, warnings, last,
          ver, leak, league, race, pub, zs>>

NoneRec == [none |-> TRUE]

(***************************************************************************)
(* Bounds of the model                                                     *)
(***************************************************************************)
\* dataset modification times range over 0..MaxMtime, counted in units of
\* 2^-22 s, the spacing of IEEE doubles between 2^30 and 2^31 seconds since
\* the epoch (st_mtime is such a double).
MaxMtime == 5
\* a discovered training run records at most MaxModels models (MODEL_NAMES
\* names three)
MaxModels == 2
\* get_fixture_by_id is asked for the match ids 1..MaxMatchId (the datasets
\* hold the ids 1..3)
MaxMatchId == 4
\* the tables _season_zscore is applied to have 1..MaxZRows rows
MaxZRows == 3

(***************************************************************************)
(* Strings                                                                 *)
(***************************************************************************)
Digits == {"0", "1", "2", "3", "4", "5", "6", "7", "8", "9"}

\* str.lower(), one character
LowerChar(c) ==
    CASE c = "A" -> "a"
      [] c = "B" -> "b"
      [] c = "C" -> "c"
      [] c = "D" -> "d"
      [] OTHER -> c

\* str.lower()
Lower(s) == [i \in 1..Len(s) |-> LowerChar(s[i])]

RECURSIVE LStrip(_)
LStrip(s) == IF s # <<>> /\ Head(s) = " " THEN LStrip(Tail(s)) ELSE s

RECURSIVE RStrip(_)
RStrip(s) ==
    IF s # <<>> /\ s[Len(s)] = " " THEN RStrip(SubSeq(s, 1, Len(s) - 1)) ELSE s

\* str.strip()
Strip(s) == RStrip(LStrip(s))

\* feature_store._normalize_name
_normalize_name(value) == Lower(Strip(value))

(***************************************************************************)
(* Numbers                                                                 *)
(***************************************************************************)
NaN == <<0, 0>>
IsNaN(v) == v[2] = 0
Abs(x) == IF x < 0 THEN -x ELSE x

RECURSIVE GCD(_, _)
GCD(a, b) == IF b = 0 THEN a ELSE GCD(b, a % b)

\* n/d in lowest terms with a positive denominator
Rat(n, d) ==
    IF d = 0 THEN NaN
    ELSE LET g == GCD(Abs(n), Abs(d))
             s == IF d < 0 THEN -1 ELSE 1
         IN  <<(s * n) \div g, (s * d) \div g>>

Num(k) == <<k, 1>>
\* a/a2 + b/b2 over the least common denominator, g the divisor a2 and b2 share
AddOver(a, b, g) == Rat(a[1] * (b[2] \div g) + b[1] * (a[2] \div g), (a[2] \div g) * b[2])
RAdd(a, b) == IF IsNaN(a) \/ IsNaN(b) THEN NaN ELSE AddOver(a, b, GCD(a[2], b[2]))
RSub(a, b) == IF IsNaN(b) THEN NaN ELSE RAdd(a, <<-b[1], b[2]>>)

\* the product with the common divisors g1 and g2 taken out first
MulOver(a, b, g1, g2) ==
    Rat((a[1] \div g1) * (b[1] \div g2), (a[2] \div g2) * (b[2] \div g1))
RMul(a, b) ==
    IF IsNaN(a) \/ IsNaN(b) THEN NaN
    ELSE MulOver(a, b, GCD(Abs(a[1]), b[2]), GCD(Abs(b[1]), a[2]))
RDiv(a, b) ==
    IF IsNaN(a) \/ IsNaN(b) \/ b[1] = 0 THEN NaN
    ELSE RMul(a, IF b[1] < 0 THEN <<-b[2], -b[1]>> ELSE <<b[2], b[1]>>)

LessOver(a, b, g) == a[1] * (b[2] \div g) < b[1] * (a[2] \div g)
RLess(a, b) == IF IsNaN(a) \/ IsNaN(b) THEN FALSE ELSE LessOver(a, b, GCD(a[2], b[2]))

RECURSIVE Pow2(_)
Pow2(k) == IF k = 0 THEN 1 ELSE 2 * Pow2(k - 1)

\* the binary digits of a/d down to a 24-bit significand: the quotient q and
\* the remainder r of a * 2^k by d for the least k >= 0 with q >= 2^23, or with
\* no remainder left (the model's magnitudes lie below 2^24)
RECURSIVE F32Digits(_, _, _, _)
F32Digits(q, r, d, k) ==
    IF q >= 8388608 \/ r = 0 THEN <<q, r, k>>
    ELSE F32Digits(2 * q + (IF 2 * r >= d THEN 1 ELSE 0), (2 * r) % d, d, k + 1)

\* the digits t = <<q, r, k>> of a magnitude over d, rounded to nearest, ties
\* to even, with the sign put back
F32Round(t, d, sign) ==
    Rat(sign * (IF 2 * t[2] > d \/ (2 * t[2] = d /\ t[1] % 2 = 1) THEN t[1] + 1 ELSE t[1]),
        Pow2(t[3]))

\* Series.astype(np.float32) of one cell: the nearest number with a 24-bit
\* significand, ties to even; NaN stays NaN
astype_float32(v) ==
    IF IsNaN(v) \/ v[1] = 0 THEN v
    ELSE F32Round(F32Digits(Abs(v[1]) \div v[2], Abs(v[1]) % v[2], v[2], 0), v[2],
                  IF v[1] < 0 THEN -1 ELSE 1)

\* Series.fillna(x) of one cell
fillna(v, x) == IF IsNaN(v) THEN x ELSE v

(***************************************************************************)
(* Python dicts and their JSON text                                        *)
(***************************************************************************)
DictKeys(d) == {d[i][1] : i \in 1..Len(d)}
DictGet(d, k) == LET i == CHOOSE j \in 1..Len(d) : d[j][1] = k IN d[i][2]

\* dict.__eq__: the same keys with equal values, whatever the insertion order
DictEq(a, b) ==
    /\ DictKeys(a) = DictKeys(b)
    /\ \A k \in DictKeys(a) : DictGet(a, k) = DictGet(b, k)

\* float.__repr__ as json.dumps writes it: an optional minus sign and the digits
\* of the magnitude (kept here as the magnitude's numerator and denominator)
FloatRepr(v) ==
    [sign |-> IF v[1] < 0 THEN "-" ELSE "", num |-> Abs(v[1]), den |-> v[2]]

\* the float json.loads builds from a number token
ParseFloat(t) == <<IF t.sign = "-" THEN -t.num ELSE t.num, t.den>>

json_dumps_sign_dropped(features) ==
    [valid |-> TRUE,
     text  |-> [i \in 1..Len(features) |->
                  <<features[i][1], [FloatRepr(features[i][2]) EXCEPT !.sign = ""]>>]]

\* json.dumps(features): the members in insertion order
json_dumps(features) ==
    [valid |-> TRUE,
     text  |-> [i \in 1..Len(features) |-> <<features[i][1], FloatRepr(features[i][2])>>]]

json_loads_magnitudes(payload) ==
    [i \in 1..Len(payload.text) |->
        <<payload.text[i][1], <<payload.text[i][2].num, payload.text[i][2].den>> >>]

\* json.loads(payload) of a valid text (the keys of a dumped dict are distinct)
json_loads(payload) ==
    [i \in 1..Len(payload.text) |-> <<payload.text[i][1], ParseFloat(payload.text[i][2])>>]

\* a payload column that is not JSON: json.loads raises JSONDecodeError
CorruptPayload == [valid |-> FALSE, text |-> <<>>]

(***************************************************************************)
(* FeatureCache                                                            *)
(***************************************************************************)
\* abs(cached_mtime - dataset_mtime) > 1e-6 in units of 2^-22 s:
\* 1e-6 s is 4.19 units, so the test is "more than 4 units apart"
MtimeTol == 4

RowKey(r) == <<r.dataset_version, r.season, r.home, r.away>>

\* the rows the SELECT's WHERE clause matches (TEXT columns compare bytewise)
SelectRows(tbl, dataset_version, season, home, away) ==
    {r \in tbl : /\ r.dataset_version = dataset_version
                 /\ r.season = season
                 /\ r.home = home
                 /\ r.away = away}

FeatureCache_get_no_mtime_check(tbl, avail, dataset_version, season, home, away, dataset_mtime) ==
    IF ~avail THEN [kind |-> "error", value |-> <<>>]
    ELSE LET found == SelectRows(tbl, dataset_version, season, home, away)
         IN  IF found = {} THEN [kind |-> "none", value |-> <<>>]
             ELSE LET row == CHOOSE r \in found : TRUE
                  IN  IF ~row.payload.valid THEN [kind |-> "error", value |-> <<>>]
                      ELSE [kind |-> "dict", value |-> json_loads(row.payload)]

\* FeatureCache.get: "none" is Python's None, "dict" the decoded payload,
\* "error" an exception leaving get (sqlite3.Error from connect, or
\* json.JSONDecodeError from json.loads: get catches neither)
FeatureCache_get(tbl, avail, dataset_version, season, home, away, dataset_mtime) ==
    IF ~avail THEN [kind |-> "error", value |-> <<>>]
    ELSE LET found == SelectRows(tbl, dataset_version, season, home, away)
         IN  IF found = {} THEN [kind |-> "none", value |-> <<>>]
             ELSE LET row == CHOOSE r \in found : TRUE
                  IN  IF Abs(row.dataset_mtime - dataset_mtime) > MtimeTol
                      THEN [kind |-> "none", value |-> <<>>]
                      ELSE IF ~row.payload.valid THEN [kind |-> "error", value |-> <<>>]
                      ELSE [kind |-> "dict", value |-> json_loads(row.payload)]

NewRow(dataset_version, season, home, away, dataset_mtime, match_id, features) ==
    [dataset_version |-> dataset_version, season |-> season, home |-> home,
     away |-> away, match_id |-> match_id, dataset_mtime |-> dataset_mtime,
     payload |-> json_dumps(features)]

FeatureCache_set_plain_insert(tbl, dataset_version, season, home, away, dataset_mtime, match_id, features) ==
    tbl \cup {NewRow(dataset_version, season, home, away, dataset_mtime, match_id, features)}

\* FeatureCache.set: INSERT OR REPLACE deletes the row holding the primary key
\* (dataset_version, season, home, away), then inserts the new one
FeatureCache_set(tbl, dataset_version, season, home, away, dataset_mtime, match_id, features) ==
    (tbl \ SelectRows(tbl, dataset_version, season, home, away))
        \cup {NewRow(dataset_version, season, home, away, dataset_mtime, match_id, features)}

(***************************************************************************)
(* The FeatureCache interface called directly (specification SpecCache)    *)
(***************************************************************************)
V7 == <<"7">>
V8 == <<"8">>
S24 == <<"2", "4">>
S25 == <<"2", "5">>

Mtimes == 0..MaxMtime

\* four-part keys: SQLite compares the TEXT columns bytewise, so "a" and "A"
\* are different home teams to the cache
CacheKeys == {<<V7, S25, <<"a">>, <<"b">>>>, <<V7, S25, <<"A">>, <<"b">>>>}

Payloads ==
    { <<>>,
      << <<"prob_edge", <<-1, 2>>>> >>,
      << <<"prob_edge", <<1, 2>>>>, <<"elo_home_pre", <<0, 1>>>> >> }

NoSet == [k \in CacheKeys |-> NoneRec]
NoRet == [op |-> "init", key |-> <<>>, match_id |-> 0, mtime |-> 0, features |-> <<>>,
          out |-> [kind |-> "none", value |-> <<>>]]

\* the state of the parts a specification does not exercise
StoresIdle ==
    /\ stores = <<>>
    /\ df = <<>>
    /\ logged = <<>>
    /\ warnings = <<>>
    /\ last = NoneRec
VerIdle == ver = NoneRec
LeakIdle == leak = NoneRec
LeagueIdle == league = NoneRec
RaceIdle == race = NoneRec
PubIdle == pub = NoneRec
ZsIdle == zs = NoneRec

InitCache ==
    /\ rows = {}
    /\ available = TRUE
    /\ lastSet = NoSet
    /\ ret = NoRet
    /\ StoresIdle
    /\ VerIdle
    /\ LeakIdle
    /\ LeagueIdle
    /\ RaceIdle
    /\ PubIdle
    /\ ZsIdle

\* cache.set(*key, dataset_mtime, match_id, features) by a caller
ApiSet(key, dataset_mtime, match_id, features) ==
    /\ rows' = FeatureCache_set(rows, key[1], key[2], key[3], key[4],
                                dataset_mtime, match_id, features)
    /\ lastSet' = [lastSet EXCEPT ![key] =
                     [none |-> FALSE, mtime |-> dataset_mtime,
                      match_id |-> match_id, features |-> features]]
    /\ ret' = [op |-> "set", key |-> key, match_id |-> match_id, mtime |-> dataset_mtime,
               features |-> features, out |-> [kind |-> "none", value |-> <<>>]]
    /\ UNCHANGED <<available, storeVars, ver, leak, league, race, pub, zs>>

\* cache.get(*key, dataset_mtime) by a caller
ApiGet(key, dataset_mtime) ==
    /\ ret' = [op |-> "get", key |-> key, match_id |-> 0, mtime |-> dataset_mtime,
               features |-> <<>>,
               out |-> FeatureCache_get(rows, available, key[1], key[2], key[3], key[4],
                                        dataset_mtime)]
    /\ UNCHANGED <<rows, available, lastSet, storeVars, ver, leak, league, race, pub, zs>>

NextCache ==
    \/ \E key \in CacheKeys, m \in Mtimes, f \in Payloads : ApiSet(key, m, 1, f)
    \/ \E key \in CacheKeys, m \in Mtimes : ApiGet(key, m)

SpecCache == InitCache /\ [][NextCache]_vars

(***************************************************************************)
(* C1, C2: the cache's contract                                            *)
(***************************************************************************)
\* the latest call was a get on a key that has been set before
GetAfterSet == ret.op = "get" /\ ~lastSet[ret.key].none

\* C1 as stated: a get after a set on the same key returns the payload that was
\* set when the mtime is the one that was set, and a miss for every different
\* mtime.
C1_RoundTripAnyDifferentMtimeMisses ==
    GetAfterSet =>
        LET s == lastSet[ret.key]
        IN  /\ ret.mtime = s.mtime =>
                 ret.out.kind = "dict" /\ DictEq(ret.out.value, s.features)
            /\ ret.mtime # s.mtime => ret.out.kind = "none"

\* C1 (amended): a get after a set on the same key (no other set on that key in
\* between) returns a payload equal value for value to the one set when the
\* mtime is the one set, and a miss when the mtime differs from the one set by
\* more than 1e-6 s; an mtime that differs by at most 1e-6 s is served the
\* payload too.
C1_RoundTrip ==
    GetAfterSet =>
        LET s == lastSet[ret.key]
        IN  /\ Abs(ret.mtime - s.mtime) <= MtimeTol =>
                 ret.out.kind = "dict" /\ DictEq(ret.out.value, s.features)
            /\ Abs(ret.mtime - s.mtime) > MtimeTol => ret.out.kind = "none"

\* a get with another mtime, within the tolerance, of a payload with a negative
\* value and two members
C1_Witness ==
    /\ GetAfterSet
    /\ ret.mtime # lastSet[ret.key].mtime
    /\ ret.out.kind = "dict"
    /\ Len(ret.out.value) = 2

C2_GetOnlyLatestFresh ==
    ret.op = "get" =>
        IF ret.out.kind = "dict"
        THEN /\ ~lastSet[ret.key].none
             /\ Abs(ret.mtime - lastSet[ret.key].mtime) <= MtimeTol
             /\ DictEq(ret.out.value, lastSet[ret.key].features)
        ELSE ret.out.kind = "none"

C2_OneRowPerKey == \A r1, r2 \in rows : RowKey(r1) = RowKey(r2) => r1 = r2

C2_SetFrame ==
    ret'.op = "set" =>
        \A key \in CacheKeys \ {ret'.key}, m \in Mtimes :
            FeatureCache_get(rows', available', key[1], key[2], key[3], key[4], m)
                = FeatureCache_get(rows, available, key[1], key[2], key[3], key[4], m)

\* C2: after any sequence of sets and gets, get(K, m) returns a payload only if
\* the latest set on K recorded an mtime within 1e-6 s of m, and then the payload
\* of that set; otherwise it reports a miss.  The table holds at most one row per
\* four-part key, and a set on another key changes no get(K, m).
C2_StalenessSafety ==
    /\ [](C2_GetOnlyLatestFresh /\ C2_OneRowPerKey)
    /\ [][C2_SetFrame]_vars

\* both keys set, and a get that is refused as stale
C2_Witness ==
    /\ ret.op = "get"
    /\ ret.out.kind = "none"
    /\ ~lastSet[ret.key].none
    /\ Cardinality(rows) = 2

(***************************************************************************)
(* Dataset-version resolution (specification SpecVersion)                  *)
(* None and the empty string are both falsy and both written <<>>; a       *)
(* NotebookRun is the sequence of its models in dict order, and <<>> is    *)
(* "no run discovered" (discover_latest_notebook_run returns a run only    *)
(* when run.models is not empty).                                          *)
(***************************************************************************)
DEFAULT_DATASET_VERSION == <<"7">>

RECURSIVE TakeDigits(_)
TakeDigits(s) ==
    IF s # <<>> /\ Head(s) \in Digits THEN <<Head(s)>> \o TakeDigits(Tail(s)) ELSE <<>>

\* re.search(r"(\d+)", s).group(1), or <<>> when nothing matches
RECURSIVE FirstDigitRun(_)
FirstDigitRun(s) ==
    IF s = <<>> THEN <<>>
    ELSE IF Head(s) \in Digits THEN TakeDigits(s)
    ELSE FirstDigitRun(Tail(s))

\* notebook_catalog._extract_dataset_version
_extract_dataset_version(dataset_label) ==
    IF dataset_label = <<>> THEN <<>> ELSE FirstDigitRun(dataset_label)

\* str.split(sep): the pieces between the separators, empty pieces kept
RECURSIVE SplitAcc(_, _, _)
SplitAcc(s, sep, cur) ==
    IF s = <<>> THEN <<cur>>
    ELSE IF Head(s) = sep THEN <<cur>> \o SplitAcc(Tail(s), sep, <<>>)
    ELSE SplitAcc(Tail(s), sep, Append(cur, Head(s)))

Split(s, sep) == SplitAcc(s, sep, <<>>)

\* str.isdigit()
IsDigit(token) == token # <<>> /\ \A i \in 1..Len(token) : token[i] \in Digits

\* feature_store._guess_version_from_name
_guess_version_from_name(filename) ==
    LET tokens == Split(filename, "_")
        hits == {i \in 1..Len(tokens) : IsDigit(tokens[i])}
    IN  IF hits = {} THEN <<>>
        ELSE tokens[CHOOSE i \in hits : \A j \in hits : i <= j]

\* NotebookRun.dataset_versions: the models' versions, first occurrences only
RECURSIVE dataset_versions(_)
dataset_versions(models) ==
    IF models = <<>> THEN <<>>
    ELSE LET before == dataset_versions(SubSeq(models, 1, Len(models) - 1))
             version == _extract_dataset_version(models[Len(models)].dataset_label)
         IN  IF version # <<>> /\ \A i \in 1..Len(before) : before[i] # version
             THEN Append(before, version)
             ELSE before

\* notebook_catalog.resolve_dataset_version
resolve_dataset_version(explicit_version, dataset_label, fallback_versions) ==
    IF explicit_version # <<>> THEN explicit_version
    ELSE LET label_version == _extract_dataset_version(dataset_label)
         IN  IF label_version # <<>> THEN label_version
             ELSE LET truthy == {i \in 1..Len(fallback_versions) :
                                   fallback_versions[i] # <<>>}
                  IN  IF truthy = {} THEN <<>>
                      ELSE fallback_versions[CHOOSE i \in truthy : \A j \in truthy : i <= j]

InitDatasetVersion_env_first(dataset_version, env_version, notebook_run, dataset_path) ==
    LET notebook_label == IF notebook_run # <<>> THEN notebook_run[1].dataset_label ELSE <<>>
        fallback_versions == IF notebook_run # <<>> THEN dataset_versions(notebook_run) ELSE <<>>
        explicit_version == IF env_version # <<>> THEN env_version ELSE dataset_version
        first == resolve_dataset_version(explicit_version, notebook_label, fallback_versions)
        resolved_version ==
            IF first = <<>> /\ dataset_path # <<>>
            THEN resolve_dataset_version(<<>>, _guess_version_from_name(dataset_path), <<>>)
            ELSE first
    IN  IF resolved_version # <<>> THEN resolved_version ELSE DEFAULT_DATASET_VERSION

\* FeatureStore.__init__, lines 255-278: the version the store takes
InitDatasetVersion(dataset_version, env_version, notebook_run, dataset_path) ==
    LET notebook_label == IF notebook_run # <<>> THEN notebook_run[1].dataset_label ELSE <<>>
        fallback_versions == IF notebook_run # <<>> THEN dataset_versions(notebook_run) ELSE <<>>
        explicit_version == IF dataset_version # <<>> THEN dataset_version ELSE env_version
        first == resolve_dataset_version(explicit_version, notebook_label, fallback_versions)
        resolved_version ==
            IF first = <<>> /\ dataset_path # <<>>
            THEN resolve_dataset_version(<<>>, _guess_version_from_name(dataset_path), <<>>)
            ELSE first
    IN  IF resolved_version # <<>> THEN resolved_version ELSE DEFAULT_DATASET_VERSION

\* dataset_label values of metrics.json: absent, "v6", "a" (no digit), "10"
Labels == {<<>>, <<"v", "6">>, <<"a">>, <<"1", "0">>}

RECURSIVE SeqsUpTo(_, _)
SeqsUpTo(S, n) ==
    IF n = 0 THEN {<<>>}
    ELSE LET shorter == SeqsUpTo(S, n - 1)
         IN  shorter \cup {Append(q, x) : q \in {r \in shorter : Len(r) = n - 1}, x \in S}

NotebookRuns == SeqsUpTo([dataset_label : Labels], MaxModels)

\* file names of dataset_path: none given, "D_7.c" (as Dataset_Version_7.csv:
\* no piece is all digits), "d_9_x", "_8"
DatasetNames ==
    {<<>>, <<"D", "_", "7", ".", "c">>, <<"d", "_", "9", "_", "x">>, <<"_", "8">>}

InitVersion ==
    /\ ver \in [pc : {"args"},
                dataset_version : {<<>>, V8},
                env_version : {<<>>, <<"9">>},
                notebook_run : NotebookRuns,
                dataset_path : DatasetNames,
                path_exists : BOOLEAN,
                result : {<<>>}]
    /\ rows = {}
    /\ available = TRUE
    /\ lastSet = NoSet
    /\ ret = NoRet
    /\ StoresIdle
    /\ LeakIdle
    /\ LeagueIdle
    /\ RaceIdle
    /\ PubIdle
    /\ ZsIdle

\* FeatureStore(...): the version is resolved, then a missing dataset file
\* raises FileNotFoundError (line 280) and no store exists
Construct ==
    /\ ver.pc = "args"
    /\ ver' = [ver EXCEPT
                 !.pc = IF ver.path_exists THEN "constructed" ELSE "FileNotFoundError",
                 !.result = InitDatasetVersion(ver.dataset_version, ver.env_version,
                                               ver.notebook_run, ver.dataset_path)]
    /\ UNCHANGED <<cacheVars, storeVars, leak, league, race, pub, zs>>

NextVersion == Construct

SpecVersion == InitVersion /\ [][NextVersion]_vars

(***************************************************************************)
(* C6: the order of the version sources                                    *)
(***************************************************************************)
\* the first non-empty string of a sequence, <<>> when there is none
FirstAvailable(sources) ==
    LET have == {i \in 1..Len(sources) : sources[i] # <<>>}
    IN  IF have = {} THEN <<>> ELSE sources[CHOOSE i \in have : \A j \in have : i <= j]

\* the four sources the claim names, for the inputs held in ver
C6_LabelVersion ==
    IF ver.notebook_run = <<>> THEN <<>>
    ELSE FirstDigitRun(ver.notebook_run[1].dataset_label)

C6_FirstCandidate ==
    FirstAvailable([i \in 1..Len(ver.notebook_run) |->
                      FirstDigitRun(ver.notebook_run[i].dataset_label)])

C6_FourSources ==
    <<ver.dataset_version, ver.env_version, C6_LabelVersion, C6_FirstCandidate>>

\* the first all-digit piece of the dataset file's name
C6_PathVersion ==
    LET pieces == Split(ver.dataset_path, "_")
    IN  FirstAvailable([i \in 1..Len(pieces) |->
                          IF IsDigit(pieces[i]) THEN pieces[i] ELSE <<>>])

\* C6 as stated: the store's version is the first available of the caller's
\* version, the environment override, the run's label version and the run's
\* first candidate version, and "7" when none of the four is available.
C6_FourSourcesThenDefault ==
    ver.pc = "constructed" =>
        ver.result = IF FirstAvailable(C6_FourSources) # <<>>
                     THEN FirstAvailable(C6_FourSources)
                     ELSE DEFAULT_DATASET_VERSION

\* C6 (amended): the store's version is the first available of the caller's
\* version, the environment override, the version number in the dataset label of
\* the discovered run's first model, the run's first non-empty candidate
\* version, and, fifth, the first all-digit "_"-separated piece of the supplied
\* dataset path's file name; "7" only when none of the five is available.
C6_VersionOrder ==
    ver.pc = "constructed" =>
        LET chosen == FirstAvailable(C6_FourSources \o <<C6_PathVersion>>)
        IN  ver.result = IF chosen # <<>> THEN chosen ELSE DEFAULT_DATASET_VERSION

\* a store whose version comes from the dataset path: nothing was supplied by
\* the caller or the environment, the run's labels hold no digit, and the file
\* is named "d_9_x"
C6_Witness ==
    /\ ver.pc = "constructed"
    /\ ver.dataset_version = <<>>
    /\ ver.env_version = <<>>
    /\ Len(ver.notebook_run) = 2
    /\ C6_FirstCandidate = <<>>
    /\ ver.dataset_path = <<"d", "_", "9", "_", "x">>
    /\ ver.result = <<"9">>

(***************************************************************************)
(* DataFrames                                                              *)
(* A table is [columns, rows]: columns is the set of its numeric columns,  *)
(* rows the sequence of its rows in index order.  Every row carries the    *)
(* identifying columns of the dataset (match_id, match_datetime_utc in     *)
(* days, season, team ids and names, match_outcome_code) and num, the      *)
(* cells of the numeric columns.  Kickoff times are distinct within a      *)
(* table, so the order sort_values gives does not depend on the sorting    *)
(* algorithm.                                                              *)
(***************************************************************************)
DEFAULT_ROLLING_WINDOW == 5

\* the rows of d with the cells of column name set to values[i]
WithColumn(d, name, values) ==
    [columns |-> d.columns \cup {name},
     rows |-> [i \in 1..Len(d.rows) |->
                 [d.rows[i] EXCEPT !.num =
                    [c \in d.columns \cup {name} |->
                       IF c = name THEN values[i] ELSE d.rows[i].num[c]]]]]

Column(d, name) == [i \in 1..Len(d.rows) |-> d.rows[i].num[name]]

RECURSIVE InsertByTime(_, _)
InsertByTime(sorted, row) ==
    IF sorted = <<>> THEN <<row>>
    ELSE IF row.match_datetime_utc < Head(sorted).match_datetime_utc
         THEN <<row>> \o sorted
         ELSE <<Head(sorted)>> \o InsertByTime(Tail(sorted), row)

\* df.sort_values("match_datetime_utc")
RECURSIVE SortByTime(_)
SortByTime(rs) ==
    IF rs = <<>> THEN <<>>
    ELSE InsertByTime(SortByTime(SubSeq(rs, 1, Len(rs) - 1)), rs[Len(rs)])

RECURSIVE InsertNum(_, _)
InsertNum(sorted, v) ==
    IF sorted = <<>> THEN <<v>>
    ELSE IF RLess(v, Head(sorted)) THEN <<v>> \o sorted
         ELSE <<Head(sorted)>> \o InsertNum(Tail(sorted), v)

RECURSIVE SortNums(_)
SortNums(vs) ==
    IF vs = <<>> THEN <<>>
    ELSE InsertNum(SortNums(SubSeq(vs, 1, Len(vs) - 1)), vs[Len(vs)])

RECURSIVE DropNaN(_)
DropNaN(vs) ==
    IF vs = <<>> THEN <<>>
    ELSE IF IsNaN(Head(vs)) THEN DropNaN(Tail(vs))
    ELSE <<Head(vs)>> \o DropNaN(Tail(vs))

RECURSIVE SumNums(_)
SumNums(vs) == IF vs = <<>> THEN Num(0) ELSE RAdd(Head(vs), SumNums(Tail(vs)))

\* Series.mean(): the mean of the cells that are not NaN, NaN when there is none
Mean(vs) ==
    LET xs == DropNaN(vs)
    IN  IF xs = <<>> THEN NaN ELSE RDiv(SumNums(xs), Num(Len(xs)))

\* Series.median(skipna=True): the middle cell, or the mean of the two middle
\* cells, of the cells that are not NaN; NaN when there is none
Median(vs) ==
    LET xs == SortNums(DropNaN(vs))
        n == Len(xs)
    IN  IF n = 0 THEN NaN
        ELSE IF n % 2 = 1 THEN xs[(n + 1) \div 2]
        ELSE RDiv(RAdd(xs[n \div 2], xs[n \div 2 + 1]), Num(2))

\* the last n members of a sequence (all of them when it is shorter)
LastN(q, n) == IF Len(q) <= n THEN q ELSE SubSeq(q, Len(q) - n + 1, Len(q))

Min(a, b) == IF a <= b THEN a ELSE b

(***************************************************************************)
(* feature_store: the derivation stage                                     *)
(***************************************************************************)
\* two rows are in one group of groupby(by)
SameGroup(by, r1, r2) ==
    CASE by = "home_team_name" -> r1.home_team_name = r2.home_team_name
      [] by = "away_team_name" -> r1.away_team_name = r2.away_team_name
      [] by = "season,home_team_name" ->
            r1.season = r2.season /\ r1.home_team_name = r2.home_team_name
      [] by = "season,away_team_name" ->
            r1.season = r2.season /\ r1.away_team_name = r2.away_team_name
      [] by = "team_id" -> r1.team_id = r2.team_id

\* the members of a set of indices in ascending order
RECURSIVE Ascending(_)
Ascending(S) ==
    IF S = {} THEN <<>>
    ELSE LET m == CHOOSE x \in S : \A y \in S : x <= y
         IN  <<m>> \o Ascending(S \ {m})

\* the indices before i of the rows in the same group as row i, in row order
PriorInGroup(d, i, by) ==
    Ascending({j \in 1..(i - 1) : SameGroup(by, d.rows[j], d.rows[i])})

\* feature_store._prior_rolling_mean: per group of team_col, the mean of the
\* previous rows' cells over the window; a row with no previous row in its
\* group takes the median of the whole column, and 0 when that is NaN
_prior_rolling_mean(d, team_col, value_col, window) ==
    [i \in 1..Len(d.rows) |->
        LET prior == PriorInGroup(d, i, team_col)
            cells == [k \in 1..Len(prior) |-> d.rows[prior[k]].num[value_col]]
            series == IF prior = <<>> THEN NaN ELSE Mean(LastN(cells, window))
            shifted == IF prior = <<>> THEN NaN ELSE cells[Len(cells)]
            fallback == fillna(shifted, Median(Column(d, value_col)))
        IN  astype_float32(fillna(fillna(series, fallback), Num(0)))]

\* the fill of lines 494-497: NaN cells take the column's median, 0 when the
\* whole column is NaN
FillMedian(d, column) ==
    LET median == Median(Column(d, column))
    IN  WithColumn(d, column,
                   [i \in 1..Len(d.rows) |->
                      fillna(d.rows[i].num[column], fillna(median, Num(0)))])

\* df[name] = df[source]
CopyColumn(d, name, source) == WithColumn(d, name, Column(d, source))

\* df[name] = _prior_rolling_mean(df, team_col, value_col, window)
MeanColumn(d, name, team_col, value_col, window) ==
    WithColumn(d, name, _prior_rolling_mean(d, team_col, value_col, window))

\* df[name] = df[x] - df[y], then the cast and fill of lines 529-545
GapColumn(d, name, x, y) ==
    WithColumn(d, name,
        [i \in 1..Len(d.rows) |->
            fillna(astype_float32(RSub(d.rows[i].num[x], d.rows[i].num[y])), Num(0))])

\* df[name] = (df[x] + df[y]) / 2.0, then the cast and fill of lines 529-545
TempoColumn(d, name, x, y) ==
    WithColumn(d, name,
        [i \in 1..Len(d.rows) |->
            fillna(astype_float32(RDiv(RAdd(d.rows[i].num[x], d.rows[i].num[y]), Num(2))),
                   Num(0))])

\* lines 502-505: the four five-match means
Avg5Columns(d, window) ==
    MeanColumn(
      MeanColumn(
        MeanColumn(
          MeanColumn(d, "home_shots_for_avg5", "home_team_name", "home_shots_for", window),
          "away_shots_for_avg5", "away_team_name", "away_shots_for", window),
        "home_shots_allowed_avg5", "home_team_name", "home_shots_allowed", window),
      "away_shots_allowed_avg5", "away_team_name", "away_shots_allowed", window)

\* feature_store._prepare_shot_features: the five-match columns that are means
\* and differences (the three-match columns, the log ratio and the season
\* z-scores are not derived here; no required feature of the model names them)
_prepare_shot_features(d0, rolling_window) ==
    IF ~({"home_shots_for", "away_shots_for"} \subseteq d0.columns) THEN d0
    ELSE
      TempoColumn(
        GapColumn(
          GapColumn(
            Avg5Columns(
              CopyColumn(
                CopyColumn(
                  FillMedian(FillMedian(d0, "home_shots_for"), "away_shots_for"),
                  "home_shots_allowed", "away_shots_for"),
                "away_shots_allowed", "home_shots_for"),
              rolling_window),
            "shot_vol_gap_avg5", "home_shots_for_avg5", "away_shots_for_avg5"),
          "shot_suppress_gap_avg5", "away_shots_allowed_avg5", "home_shots_allowed_avg5"),
        "shots_tempo_avg5", "home_shots_for_avg5", "away_shots_for_avg5")

\* lines 453-464: the share of the window a side has already played at home
\* (away) in the season
RecentGamesFrac(d0, rolling_window) ==
    IF "home_recent_games_frac" \in d0.columns THEN d0
    ELSE
    LET d1 == [d0 EXCEPT !.rows = SortByTime(d0.rows)]
        home_games == [i \in 1..Len(d1.rows) |->
                         Min(Len(PriorInGroup(d1, i, "season,home_team_name")), rolling_window)]
        away_games == [i \in 1..Len(d1.rows) |->
                         Min(Len(PriorInGroup(d1, i, "season,away_team_name")), rolling_window)]
        d2 == WithColumn(d1, "home_recent_games_frac",
                  [i \in 1..Len(d1.rows) |->
                     astype_float32(Rat(home_games[i], rolling_window))])
    IN  WithColumn(d2, "away_recent_games_frac",
                  [i \in 1..Len(d2.rows) |->
                     astype_float32(Rat(away_games[i], rolling_window))])

\* feature_store._smoothed_avg over the columns sum_col and frac_col of d.
\* games is the float32 product games_frac * window; the weight enters the
\* products as games / window, the number games_frac stores to within 2^-25,
\* and the result is rounded to float32
_smoothed_avg(d, sum_col, frac_col, window) ==
    LET games == [i \in 1..Len(d.rows) |->
                     astype_float32(RMul(d.rows[i].num[frac_col], Num(window)))]
        per_match == [i \in 1..Len(d.rows) |->
                         IF games[i][1] = 0 THEN NaN
                         ELSE RDiv(d.rows[i].num[sum_col], games[i])]
        prior == fillna(Mean(per_match), Num(0))
    IN  [i \in 1..Len(d.rows) |->
            LET frac == RDiv(games[i], Num(window))
                alpha == IF RLess(Num(1), frac) THEN Num(1)
                         ELSE IF RLess(frac, Num(0)) THEN Num(0) ELSE frac
            IN  astype_float32(RAdd(RMul(alpha, fillna(per_match[i], prior)),
                                    RMul(RSub(Num(1), alpha), prior)))]

\* df[name] = _smoothed_avg(df[sum_col], df[frac_col], window)
SmoothedColumn(d, name, sum_col, frac_col, window) ==
    WithColumn(d, name, _smoothed_avg(d, sum_col, frac_col, window))

\* lines 467-477: the new column, the window sum and the games fraction of
\* each smoothed average, in the order of the assignments
SmoothedList ==
    << <<"home_goals_for_avg5", "home_goals_for_last_5", "home_recent_games_frac">>,
       <<"home_goals_against_avg5", "home_goals_against_last_5", "home_recent_games_frac">>,
       <<"home_xg_for_avg5", "home_xg_for_last_5", "home_recent_games_frac">>,
       <<"home_xg_against_avg5", "home_xg_against_last_5", "home_recent_games_frac">>,
       <<"home_points_avg5", "home_points_last_5", "home_recent_games_frac">>,
       <<"away_goals_for_avg5", "away_goals_for_last_5", "away_recent_games_frac">>,
       <<"away_goals_against_avg5", "away_goals_against_last_5", "away_recent_games_frac">>,
       <<"away_xg_for_avg5", "away_xg_for_last_5", "away_recent_games_frac">>,
       <<"away_xg_against_avg5", "away_xg_against_last_5", "away_recent_games_frac">>,
       <<"away_points_avg5", "away_points_last_5", "away_recent_games_frac">> >>

RECURSIVE SmoothedColumns(_, _, _)
SmoothedColumns(d, list, window) ==
    IF list = <<>> THEN d
    ELSE SmoothedColumns(
             SmoothedColumn(d, Head(list)[1], Head(list)[2], Head(list)[3], window),
             Tail(list), window)

\* lines 466-477: the ten smoothed averages
SmoothedAverages(d, window) ==
    IF "home_goals_for_avg5" \in d.columns \/ "home_goals_for_last_5" \notin d.columns
    THEN d
    ELSE SmoothedColumns(d, SmoothedList, window)

\* df[name] = df[x] - df[y] of two float32 columns
DiffColumn(d, name, x, y) ==
    WithColumn(d, name,
        [i \in 1..Len(d.rows) |->
            astype_float32(RSub(d.rows[i].num[x], d.rows[i].num[y]))])

\* lines 480-484: the new column, the minuend and the subtrahend of each gap
GapList ==
    << <<"att_gap_avg5", "home_goals_for_avg5", "away_goals_for_avg5">>,
       <<"def_gap_avg5", "away_goals_against_avg5", "home_goals_against_avg5">>,
       <<"points_gap_avg5", "home_points_avg5", "away_points_avg5">>,
       <<"xg_att_gap_avg5", "home_xg_for_avg5", "away_xg_for_avg5">>,
       <<"xg_def_gap_avg5", "away_xg_against_avg5", "home_xg_against_avg5">> >>

RECURSIVE DiffColumns(_, _)
DiffColumns(d, list) ==
    IF list = <<>> THEN d
    ELSE DiffColumns(DiffColumn(d, Head(list)[1], Head(list)[2], Head(list)[3]),
                     Tail(list))

\* lines 479-484: the gaps between the sides' smoothed averages (the logarithm
\* of the xG ratio, lines 485-488, has no rational value and is left out)
SmoothedGaps(d) ==
    IF "att_gap_avg5" \in d.columns
       \/ ~({"home_goals_for_avg5", "away_goals_for_avg5"} \subseteq d.columns)
    THEN d
    ELSE DiffColumns(d, GapList)

\* feature_store._prepare_smoothed_form
_prepare_smoothed_form(d0, rolling_window) ==
    SmoothedGaps(SmoothedAverages(RecentGamesFrac(d0, rolling_window), rolling_window))

\* feature_store._augment_dataframe
_augment_dataframe(d0, rolling_window) ==
    LET d1 == IF "prob_edge" \notin d0.columns
                 /\ {"forecast_home_win", "forecast_away_win"} \subseteq d0.columns
              THEN WithColumn(d0, "prob_edge",
                       [i \in 1..Len(d0.rows) |->
                          fillna(astype_float32(RSub(d0.rows[i].num["forecast_home_win"],
                                                     d0.rows[i].num["forecast_away_win"])),
                                 Num(0))])
              ELSE d0
    IN  _prepare_shot_features(_prepare_smoothed_form(d1, rolling_window), rolling_window)

(***************************************************************************)
(* FeatureStore (specification Spec)                                       *)
(***************************************************************************)
Stores == {1, 2}

MatchRow(id, t, season, home_id, home, away_id, away, code, num) ==
    [match_id |-> id, match_datetime_utc |-> t, season |-> season,
     home_team_id |-> home_id, home_team_name |-> home,
     away_team_id |-> away_id, away_team_name |-> away,
     match_outcome_code |-> code, num |-> num]

TeamA == <<"A">>
TeamB == <<"B">>

\* Dataset_Version_7.csv as first written: A - B played twice in season 25 (a
\* replayed fixture), and once in season 24 with no home forecast; the file has
\* no elo_home_pre column and its lines are not in kickoff order
Csv1 ==
    [columns |-> {"forecast_home_win", "forecast_away_win"},
     rows |-> << MatchRow(2, 20, S25, 1, TeamA, 2, TeamB, "A",
                          [c \in {"forecast_home_win", "forecast_away_win"} |->
                             IF c = "forecast_home_win" THEN <<1, 4>> ELSE <<1, 2>>]),
                 MatchRow(1, 10, S25, 1, TeamA, 2, TeamB, "H",
                          [c \in {"forecast_home_win", "forecast_away_win"} |->
                             IF c = "forecast_home_win" THEN <<1, 2>> ELSE <<1, 4>>]),
                 MatchRow(3, 5, S24, 1, TeamA, 2, TeamB, "D",
                          [c \in {"forecast_home_win", "forecast_away_win"} |->
                             IF c = "forecast_home_win" THEN NaN ELSE <<1, 4>>]) >>]

\* the same file after a rebuild: other forecasts, and an elo_home_pre column
Csv2 ==
    [columns |-> {"forecast_home_win", "forecast_away_win", "elo_home_pre"},
     rows |-> << MatchRow(1, 10, S25, 1, TeamA, 2, TeamB, "H",
                          [c \in {"forecast_home_win", "forecast_away_win", "elo_home_pre"} |->
                             CASE c = "forecast_home_win" -> <<3, 4>>
                               [] c = "forecast_away_win" -> <<1, 8>>
                               [] OTHER -> <<3, 2>>]),
                 MatchRow(3, 5, S24, 1, TeamA, 2, TeamB, "D",
                          [c \in {"forecast_home_win", "forecast_away_win", "elo_home_pre"} |->
                             CASE c = "forecast_home_win" -> <<1, 4>>
                               [] c = "forecast_away_win" -> <<1, 4>>
                               [] OTHER -> NaN]) >>]

\* _model_features: the models' feature lists in dict order
ModelFeatures1 ==
    << <<"forecast_home_win", "prob_edge">>, <<"prob_edge", "elo_home_pre">> >>
ModelFeatures2 ==
    << <<"prob_edge", "home_recent_games_frac">>, <<"elo_home_pre">> >>
\* a run whose metrics.json has an empty feature_cols
ModelFeatures0 == << <<>> >>

\* the first store: version 7, the file as first written, cached
Store1Configs ==
    {[dataset_version |-> V7, dataset_mtime |-> 0, csv |-> Csv1,
      rolling_window |-> DEFAULT_ROLLING_WINDOW,
      model_features |-> ModelFeatures1, has_cache |-> TRUE]}

\* the second store: the same file with another feature list, the same file
\* with an mtime within the tolerance, the rebuilt file (an mtime beyond the
\* tolerance), the same file with no feature at all, the same file and no cache
Store2Configs ==
    {[dataset_version |-> V7, dataset_mtime |-> f[1], csv |-> f[2],
      rolling_window |-> DEFAULT_ROLLING_WINDOW,
      model_features |-> f[3], has_cache |-> f[4]] :
        f \in {<<0, Csv1, ModelFeatures2, TRUE>>,
               <<1, Csv1, ModelFeatures1, TRUE>>,
               <<MaxMtime, Csv2, ModelFeatures1, TRUE>>,
               <<0, Csv1, ModelFeatures0, TRUE>>,
               <<0, Csv1, ModelFeatures2, FALSE>>}}

\* feature_store._flatten followed by the loop of required_features: the
\* names in order of first occurrence
RECURSIVE Flatten(_)
Flatten(lists) == IF lists = <<>> THEN <<>> ELSE Head(lists) \o Flatten(Tail(lists))

Unique_no_dedup(names) == names

RECURSIVE Unique(_)
Unique(names) ==
    IF names = <<>> THEN <<>>
    ELSE LET before == Unique(SubSeq(names, 1, Len(names) - 1))
             x == names[Len(names)]
         IN  IF \E i \in 1..Len(before) : before[i] = x THEN before ELSE Append(before, x)

\* FeatureStore.required_features
required_features(s) == Unique(Flatten(stores[s].model_features))

\* FeatureStore.df on first use, lines 297-311: the table read, sorted, its
\* columns recorded, then augmented
LoadDf(cfg) ==
    LET read == [cfg.csv EXCEPT !.rows = SortByTime(cfg.csv.rows)]
        augmented == _augment_dataframe(read, cfg.rolling_window)
    IN  [none |-> FALSE,
         table |-> augmented,
         baseline_columns |-> read.columns,
         derived_columns |-> augmented.columns \ read.columns]

\* self.df as seen by a handler: the loaded table, loading it first if needed
DfOf(s) == IF df[s].none THEN LoadDf(stores[s]) ELSE df[s]

feature_lineage_no_derived(loaded, feature) ==
    IF ~loaded.none /\ feature \in loaded.baseline_columns THEN "direct" ELSE "unknown"

\* FeatureStore.feature_lineage for one feature, given the loaded state
feature_lineage(loaded, feature) ==
    LET baseline == IF loaded.none THEN {} ELSE loaded.baseline_columns
        derived == IF loaded.none THEN {} ELSE loaded.derived_columns
    IN  IF feature \in baseline THEN "direct"
        ELSE IF feature \in derived THEN "derived"
        ELSE "unknown"

\* str.__lt__ on season strings (digits only)
Ord(c) == CHOOSE n \in 0..9 : c = <<"0", "1", "2", "3", "4", "5", "6", "7", "8", "9">>[n + 1]

RECURSIVE StrLess(_, _)
StrLess(a, b) ==
    IF b = <<>> THEN FALSE
    ELSE IF a = <<>> THEN TRUE
    ELSE IF Head(a) = Head(b) THEN StrLess(Tail(a), Tail(b))
    ELSE Ord(Head(a)) < Ord(Head(b))

\* FeatureStore.latest_season: the greatest season string of the table
latest_season(loaded) ==
    LET seasons == {loaded.table.rows[i].season : i \in 1..Len(loaded.table.rows)}
    IN  IF seasons = {} THEN DEFAULT_DATASET_VERSION
        ELSE CHOOSE x \in seasons : \A y \in seasons : ~StrLess(x, y)

\* row.get(feature): the cell, or None (NaN to pd.isna) when the table has no
\* such column
RowGet(loaded, row, feature) ==
    IF feature \in loaded.table.columns THEN row.num[feature] ELSE NaN

RECURSIVE BuildLoop_warn_every_time(_, _, _, _)
BuildLoop_warn_every_time(names, loaded, row, acc) ==
    IF names = <<>> THEN acc
    ELSE LET feature == Head(names)
             value == RowGet(loaded, row, feature)
             warn == /\ IsNaN(value)
                     /\ feature_lineage(loaded, feature) = "unknown"
         IN  BuildLoop_warn_every_time(Tail(names), loaded, row,
                 [features |-> Append(acc.features,
                                      <<feature, IF IsNaN(value) THEN Num(0) ELSE value>>),
                  logged |-> IF warn THEN acc.logged \cup {feature} ELSE acc.logged,
                  warned |-> IF warn THEN Append(acc.warned, feature) ELSE acc.warned])

\* the loop of lines 394-408 over the names still to do; acc holds the features
\* built so far, _unknown_features_logged and the warnings emitted by this call
RECURSIVE BuildLoop(_, _, _, _)
BuildLoop(names, loaded, row, acc) ==
    IF names = <<>> THEN acc
    ELSE LET feature == Head(names)
             value == RowGet(loaded, row, feature)
             warn == /\ IsNaN(value)
                     /\ feature_lineage(loaded, feature) = "unknown"
                     /\ feature \notin acc.logged
         IN  BuildLoop(Tail(names), loaded, row,
                 [features |-> Append(acc.features,
                                      <<feature, IF IsNaN(value) THEN Num(0) ELSE value>>),
                  logged |-> IF warn THEN acc.logged \cup {feature} ELSE acc.logged,
                  warned |-> IF warn THEN Append(acc.warned, feature) ELSE acc.warned])

CacheKeyOf_raw_names(s, row) ==
    <<stores[s].dataset_version, row.season, row.home_team_name, row.away_team_name>>

\* the cache key of a row: version, then season and names trimmed and lower-cased
CacheKeyOf(s, row) ==
    <<stores[s].dataset_version, _normalize_name(row.season),
      _normalize_name(row.home_team_name), _normalize_name(row.away_team_name)>>

\* FeatureStore._build_features_from_row: what it returns or raises, and the
\* cache table, the logged set and the warnings it leaves
_build_features_from_row(s, loaded, row) ==
    LET cfg == stores[s]
        key == CacheKeyOf(s, row)
        cached == IF cfg.has_cache
                  THEN FeatureCache_get(rows, available, key[1], key[2], key[3], key[4],
                                        cfg.dataset_mtime)
                  ELSE [kind |-> "none", value |-> <<>>]
        built == BuildLoop(required_features(s), loaded, row,
                           [features |-> <<>>, logged |-> logged[s], warned |-> <<>>])
    IN  IF cached.kind = "error"
        THEN [kind |-> "error", how |-> "none", features |-> <<>>, tbl |-> rows,
              logged |-> logged[s], warned |-> <<>>]
        ELSE IF cached.kind = "dict" /\ cached.value # <<>>
        THEN [kind |-> "ok", how |-> "cached", features |-> cached.value, tbl |-> rows,
              logged |-> logged[s], warned |-> <<>>]
        ELSE [kind |-> "ok", how |-> "computed", features |-> built.features,
              tbl |-> IF cfg.has_cache
                      THEN FeatureCache_set(rows, key[1], key[2], key[3], key[4],
                                            cfg.dataset_mtime, row.match_id, built.features)
                      ELSE rows,
              logged |-> built.logged, warned |-> built.warned]

\* the rows get_fixture_by_id selects, in index order
RowsById(loaded, match_id) ==
    LET t == loaded.table.rows
    IN  {i \in 1..Len(t) : t[i].match_id = match_id}

RowsByFixture_home_only(loaded, season, home, away) ==
    LET t == loaded.table.rows
    IN  {i \in 1..Len(t) : /\ t[i].season = season
                           /\ Lower(t[i].home_team_name) = Lower(home)}

RowsByFixture_exact_case(loaded, season, home, away) ==
    LET t == loaded.table.rows
    IN  {i \in 1..Len(t) : /\ t[i].season = season
                           /\ t[i].home_team_name = home
                           /\ t[i].away_team_name = away}

\* the rows the mask of get_fixture selects; season is the argument after
\* "season or self.latest_season"
RowsByFixture(loaded, season, home, away) ==
    LET t == loaded.table.rows
    IN  {i \in 1..Len(t) : /\ t[i].season = season
                           /\ Lower(t[i].home_team_name) = Lower(home)
                           /\ Lower(t[i].away_team_name) = Lower(away)}

MatchIds == 1..MaxMatchId
\* the fixtures get_fixture is asked for: (season, home, away), with None
\* (<<>>) for "the latest season", names in other cases, and a side that
\* never played
Fixtures ==
    {<< <<>>, <<"A">>, <<"B">> >>, <<S24, <<"a">>, <<"B">> >>, <<S24, <<"A">>, <<"b">> >>,
     <<S25, <<"A">>, <<"C">> >>}

NoLookup ==
    [op |-> "none", store |-> 0, arg_id |-> 0, arg_season |-> <<>>, arg_home |-> <<>>,
     arg_away |-> <<>>, kind |-> "none", how |-> "none", match_id |-> 0,
     home_team |-> <<>>, away_team |-> <<>>, season |-> <<>>, features |-> <<>>,
     key |-> <<>>]

Init ==
    /\ stores \in [Stores -> Store1Configs \cup Store2Configs]
    /\ stores[1] \in Store1Configs
    /\ stores[2] \in Store2Configs
    /\ rows = {}
    /\ available = TRUE
    /\ lastSet = NoSet
    /\ ret = NoRet
    /\ df = [s \in Stores |-> NoneRec]
    /\ logged = [s \in Stores |-> {}]
    /\ warnings = [s \in Stores |-> <<>>]
    /\ last = NoLookup
    /\ VerIdle
    /\ LeakIdle
    /\ LeagueIdle
    /\ RaceIdle
    /\ PubIdle
    /\ ZsIdle

\* the effects of a lookup by store s that selected the rows with indices found
\* (row.iloc[0] is the least index), or raised ValueError when there is none
Finish(s, loaded, found, request) ==
    IF found = {}
    THEN /\ last' = [request EXCEPT !.kind = "ValueError"]
         /\ df' = [df EXCEPT ![s] = loaded]
         /\ UNCHANGED <<rows, logged, warnings>>
    ELSE LET row == loaded.table.rows[CHOOSE i \in found : \A j \in found : i <= j]
             key == CacheKeyOf(s, row)
             out == _build_features_from_row(s, loaded, row)
         IN  /\ last' = [request EXCEPT
                           !.kind = out.kind, !.how = out.how,
                           !.match_id = row.match_id, !.home_team = row.home_team_name,
                           !.away_team = row.away_team_name, !.season = row.season,
                           !.features = out.features, !.key = key]
             /\ df' = [df EXCEPT ![s] = loaded]
             /\ rows' = out.tbl
             /\ logged' = [logged EXCEPT ![s] = out.logged]
             /\ warnings' = [warnings EXCEPT ![s] = @ \o out.warned]

\* FeatureStore.get_fixture_by_id(match_id)
get_fixture_by_id(s, match_id) ==
    LET loaded == DfOf(s)
    IN  /\ Finish(s, loaded, RowsById(loaded, match_id),
                  [NoLookup EXCEPT !.op = "get_fixture_by_id", !.store = s,
                                   !.arg_id = match_id])
        /\ UNCHANGED <<available, lastSet, ret, stores, ver, leak, league, race, pub, zs>>

\* FeatureStore.get_fixture(season, home, away); a falsy season (None or "")
\* stands for the latest season of the table
get_fixture(s, season, home, away) ==
    LET loaded == DfOf(s)
        asked == IF season # <<>> THEN season ELSE latest_season(loaded)
    IN  /\ Finish(s, loaded, RowsByFixture(loaded, asked, home, away),
                  [NoLookup EXCEPT !.op = "get_fixture", !.store = s,
                                   !.arg_season = season, !.arg_home = home,
                                   !.arg_away = away])
        /\ UNCHANGED <<available, lastSet, ret, stores, ver, leak, league, race, pub, zs>>

\* the environment: a row of the cache file is damaged (its payload is no longer
\* JSON)
CorruptRow ==
    \E r \in rows :
        /\ r.payload.valid
        /\ rows' = (rows \ {r}) \cup {[r EXCEPT !.payload = CorruptPayload]}
        /\ last' = [NoLookup EXCEPT !.op = "corrupt_row"]
        /\ UNCHANGED <<available, lastSet, ret, stores, df, logged, warnings, ver, leak, league, race, pub, zs>>

\* the environment: the cache file becomes unreachable (sqlite3.connect raises),
\* or reachable again
CacheOutage ==
    /\ available' = ~available
    /\ last' = [NoLookup EXCEPT !.op = "outage"]
    /\ UNCHANGED <<rows, lastSet, ret, stores, df, logged, warnings, ver, leak, league, race, pub, zs>>

Next ==
    \/ \E s \in Stores, match_id \in MatchIds : get_fixture_by_id(s, match_id)
    \/ \E s \in Stores, f \in Fixtures : get_fixture(s, f[1], f[2], f[3])
    \/ CorruptRow
    \/ CacheOutage

Spec == Init /\ [][Next]_vars

(***************************************************************************)
(* Claims about fixture lookups                                            *)
(***************************************************************************)
Lookups == {"get_fixture", "get_fixture_by_id"}

\* the row of store s's table, as loaded and derived, that holds match id
TableRow(s, id) ==
    LET t == LoadDf(stores[s]).table
    IN  t.rows[CHOOSE i \in 1..Len(t.rows) : t.rows[i].match_id = id]

\* the map the contract describes for a row: one member per required name,
\* the row's value, or 0.0 when it is missing or there is no such column
ContractFeatures(s, id) ==
    LET t == LoadDf(stores[s]).table
        row == TableRow(s, id)
        names == required_features(s)
    IN  [i \in 1..Len(names) |->
           <<names[i],
             IF names[i] \in t.columns /\ ~IsNaN(row.num[names[i]])
             THEN row.num[names[i]] ELSE Num(0)>>]

\* C4: every feature map a lookup returns, recomputed or served from the cache,
\* has exactly the store's required feature names as keys, each with the value
\* of that column in the fixture's row, or 0.0 when it is missing
C4_ReturnedMapIsRowMap ==
    (last.op \in Lookups /\ last.kind = "ok")
        => DictEq(last.features, ContractFeatures(last.store, last.match_id))

SameRequest(x, y) ==
    /\ x.op = y.op
    /\ x.store = y.store
    /\ x.arg_id = y.arg_id
    /\ x.arg_season = y.arg_season
    /\ x.arg_home = y.arg_home
    /\ x.arg_away = y.arg_away

\* C5: a store that looks up the same fixture twice in a row, over its unchanged
\* table, returns the same feature map both times (same keys in the same order,
\* same values), whether the second answer is recomputed or read from the cache
C5_IdempotentResolution ==
    [][(/\ last.op \in Lookups /\ last.kind = "ok"
        /\ last'.kind = "ok"
        /\ SameRequest(last, last'))
          => /\ last'.features = last.features
             /\ last'.match_id = last.match_id]_vars

\* a lookup by the store of the rebuilt file answered from the cache: only that
\* store's own earlier lookup of the fixture can have written the entry
C5_Witness ==
    /\ last.op \in Lookups /\ last.kind = "ok" /\ last.how = "cached"
    /\ last.store = 2
    /\ stores[2].dataset_mtime = MaxMtime
    /\ last.features # <<>>

\* the rows of the cache under the key the contract names for the lookup's row
EntriesFor(x) ==
    SelectRows(rows, stores[x.store].dataset_version,
               Lower(Strip(x.season)), Lower(Strip(x.home_team)), Lower(Strip(x.away_team)))

\* C7 as stated: after a successful lookup on a store with a cache, the cache
\* holds one entry under the normalized key, its mtime is the store's dataset
\* mtime and its payload is the returned map
C7_EntryHasStoreMtime ==
    (last.op \in Lookups /\ last.kind = "ok" /\ stores[last.store].has_cache)
        => /\ Cardinality(EntriesFor(last)) = 1
           /\ \A r \in EntriesFor(last) :
                 /\ r.dataset_mtime = stores[last.store].dataset_mtime
                 /\ r.payload.valid
                 /\ json_loads(r.payload) = last.features

\* C7: after a successful lookup on a store with a cache, the cache holds one
\* entry under the normalized key whose payload is the returned map; its mtime
\* is the store's dataset mtime when the lookup recomputed, and within the
\* tolerance of it when the lookup was served from the cache
C7_LookupPopulatesCache ==
    (last.op \in Lookups /\ last.kind = "ok" /\ stores[last.store].has_cache)
        => /\ Cardinality(EntriesFor(last)) = 1
           /\ \A r \in EntriesFor(last) :
                 /\ Abs(r.dataset_mtime - stores[last.store].dataset_mtime) <= MtimeTol
                 /\ last.how = "computed"
                      => r.dataset_mtime = stores[last.store].dataset_mtime
                 /\ r.payload.valid
                 /\ json_loads(r.payload) = last.features

\* a lookup served from an entry another store wrote under a different mtime
C7_Witness ==
    /\ last.op \in Lookups /\ last.kind = "ok" /\ last.how = "cached"
    /\ stores[last.store].has_cache
    /\ \E r \in EntriesFor(last) : r.dataset_mtime # stores[last.store].dataset_mtime

\* C8: a lookup never ends in an error from the cache: an unreachable cache file
\* or a damaged row is a miss, and the features are recomputed and returned
C8_CacheFailureIsMiss ==
    last.op \in Lookups => last.kind # "error"

\* the required names a recomputation found missing in the row
MissingIn(s, id) ==
    LET t == LoadDf(stores[s]).table
        names == required_features(s)
    IN  {names[i] : i \in {j \in 1..Len(names) :
                              \/ names[j] \notin t.columns
                              \/ IsNaN(TableRow(s, id).num[names[j]])}}

Warned(s) == {warnings[s][i] : i \in 1..Len(warnings[s])}

NoRepeat(q) == \A i, j \in 1..Len(q) : q[i] = q[j] => i = j

\* C9 as stated: every required name a recomputation found missing and
\* defaulted has been warned about, and no name is warned about twice
C9_EveryMissingFeatureWarned ==
    /\ (last.op \in Lookups /\ last.kind = "ok" /\ last.how = "computed")
          => MissingIn(last.store, last.match_id) \subseteq Warned(last.store)
    /\ \A s \in Stores : NoRepeat(warnings[s])

\* C9: a required name is warned about when a recomputation first finds that
\* the table has no such column; a missing value in a column the table has is
\* defaulted without a warning; no name is warned about twice by one store
C9_OneWarningPerUnknownFeature ==
    /\ (last.op \in Lookups /\ last.kind = "ok" /\ last.how = "computed")
          => \A f \in MissingIn(last.store, last.match_id) :
                f \in Warned(last.store)
                   <=> f \notin LoadDf(stores[last.store]).table.columns
    /\ \A s \in Stores :
          /\ NoRepeat(warnings[s])
          /\ Warned(s) = logged[s]
          /\ \A f \in Warned(s) :
                /\ f \notin LoadDf(stores[s]).table.columns
                /\ \E i \in 1..Len(required_features(s)) : required_features(s)[i] = f

\* a recomputation that defaults a missing value silently, by a store that has
\* already warned about a missing column
C9_Witness ==
    /\ last.op \in Lookups /\ last.kind = "ok" /\ last.how = "computed"
    /\ \E f \in MissingIn(last.store, last.match_id) : f \notin Warned(last.store)
    /\ Warned(last.store) # {}

\* the request x names a row of the store's file: the match id, or the season
\* (the latest one when none is given) with both names up to case
NamesARow(x) ==
    LET file == stores[x.store].csv.rows
        seasons == {file[i].season : i \in 1..Len(file)}
        latest == CHOOSE a \in seasons : \A b \in seasons : ~StrLess(a, b)
        asked == IF x.arg_season = <<>> THEN latest ELSE x.arg_season
    IN  \E i \in 1..Len(file) :
           IF x.op = "get_fixture_by_id"
           THEN file[i].match_id = x.arg_id
           ELSE /\ file[i].season = asked
                /\ Lower(file[i].home_team_name) = Lower(x.arg_home)
                /\ Lower(file[i].away_team_name) = Lower(x.arg_away)

\* the row a lookup answered with is one the request names
AnswersRequest(x) ==
    LET file == stores[x.store].csv.rows
    IN  \E i \in 1..Len(file) :
           /\ file[i].match_id = x.match_id
           /\ file[i].season = x.season
           /\ file[i].home_team_name = x.home_team
           /\ file[i].away_team_name = x.away_team
           /\ IF x.op = "get_fixture_by_id"
              THEN x.match_id = x.arg_id
              ELSE /\ x.arg_season # <<>> => x.season = x.arg_season
                   /\ Lower(x.home_team) = Lower(x.arg_home)
                   /\ Lower(x.away_team) = Lower(x.arg_away)

C10_NotFoundState ==
    last.op \in Lookups
        => /\ ~NamesARow(last) => last.kind = "ValueError"
           /\ last.kind = "ValueError"
                 => /\ ~NamesARow(last)
                    /\ last.features = <<>>
                    /\ last.match_id = 0
           /\ last.kind = "ok" => AnswersRequest(last)

C10_NotFoundFrame ==
    last'.kind = "ValueError" => rows' = rows /\ logged' = logged /\ warnings' = warnings

\* C10: a lookup whose triple or match id names no row raises the not-found
\* error: it returns no features, never answers with another row, and leaves
\* the cache as it was
C10_NotFoundRaises ==
    [](C10_NotFoundState) /\ [][C10_NotFoundFrame]_vars

\* a fixture of a side that never played, asked of a store whose cache already
\* holds entries
C10_Witness ==
    /\ last.op = "get_fixture" /\ last.kind = "ValueError"
    /\ last.arg_away = <<"C">>
    /\ rows # {}

outcome_points_home_takes_all(code) == <<3, 0>>

(***************************************************************************)
(* build_league_results_v2: the team view and its rolling features         *)
(***************************************************************************)
\* outcome_points of compute_team_view: (home points, away points)
outcome_points(code) ==
    IF code = "H" THEN <<3, 0>> ELSE IF code = "A" THEN <<0, 3>> ELSE <<1, 1>>

\* the home (is_home = 1) or away (is_home = 0) row of the long table for a match
TeamSide(m, is_home) ==
    LET pts == outcome_points(m.match_outcome_code)
        gf == IF is_home = 1 THEN m.num["home_goals"] ELSE m.num["away_goals"]
        ga == IF is_home = 1 THEN m.num["away_goals"] ELSE m.num["home_goals"]
        xf == IF is_home = 1 THEN m.num["home_xg"] ELSE m.num["away_xg"]
        xa == IF is_home = 1 THEN m.num["away_xg"] ELSE m.num["home_xg"]
    IN  [match_id |-> m.match_id, match_datetime_utc |-> m.match_datetime_utc,
         season |-> m.season,
         team_id |-> IF is_home = 1 THEN m.home_team_id ELSE m.away_team_id,
         is_home |-> is_home,
         points |-> Num(IF is_home = 1 THEN pts[1] ELSE pts[2]),
         goals_for |-> gf, goals_against |-> ga, xg_for |-> xf, xg_against |-> xa,
         goal_diff |-> RSub(gf, ga), xg_diff |-> RSub(xf, xa),
         match_number |-> 0, rest_days |-> NaN]

\* the rows of one team in kickoff order (ms is in kickoff order)
RECURSIVE TeamRows(_, _)
TeamRows(ms, team) ==
    IF ms = <<>> THEN <<>>
    ELSE LET m == Head(ms)
             here == IF m.home_team_id = team THEN <<TeamSide(m, 1)>>
                     ELSE IF m.away_team_id = team THEN <<TeamSide(m, 0)>>
                     ELSE <<>>
         IN  here \o TeamRows(Tail(ms), team)

Numbered_one_based(rs) ==
    [k \in 1..Len(rs) |->
        [rs[k] EXCEPT
           !.match_number = k,
           !.rest_days = IF k = 1 THEN NaN
                         ELSE Num(rs[k].match_datetime_utc - rs[k - 1].match_datetime_utc)]]

Numbered_diff_reversed(rs) ==
    [k \in 1..Len(rs) |->
        [rs[k] EXCEPT
           !.match_number = k - 1,
           !.rest_days = IF k = 1 THEN NaN
                         ELSE Num(rs[k - 1].match_datetime_utc - rs[k].match_datetime_utc)]]

\* groupby("team_id").cumcount() and the diff of the kickoffs, in days
Numbered(rs) ==
    [k \in 1..Len(rs) |->
        [rs[k] EXCEPT
           !.match_number = k - 1,
           !.rest_days = IF k = 1 THEN NaN
                         ELSE Num(rs[k].match_datetime_utc - rs[k - 1].match_datetime_utc)]]

RECURSIVE ConcatTeams(_, _)
ConcatTeams(ms, teams) ==
    IF teams = {} THEN <<>>
    ELSE LET t == CHOOSE x \in teams : \A y \in teams : x <= y
         IN  Numbered(TeamRows(ms, t)) \o ConcatTeams(ms, teams \ {t})

\* compute_team_view: the long table, sorted by team and kickoff
compute_team_view(matches) ==
    LET ms == SortByTime(matches.rows)
        teams == {ms[i].home_team_id : i \in 1..Len(ms)}
                    \cup {ms[i].away_team_id : i \in 1..Len(ms)}
    IN  ConcatTeams(ms, teams)

Windows == {3, 5, 10}
RollingCols ==
    {"points", "goals_for", "goals_against", "goal_diff", "xg_for", "xg_against", "xg_diff"}

RollingSum_whole_history(cells, w) == SumNums(DropNaN(cells))

\* s.shift().rolling(window=w, min_periods=1).sum() at one row, then fillna(0):
\* the sum of the cells that are not NaN among the last w earlier cells, 0 when
\* there is none
RollingSum(cells, w) == SumNums(DropNaN(LastN(cells, w)))

PointsPct_whole_window(points_last, match_number, w) ==
    fillna(IF match_number = 0 THEN NaN ELSE RDiv(points_last, Num(3 * w)), Num(0))

\* lines 133-138: points_last_w / (3 * match_number.clip(upper=w)), a zero
\* denominator replaced by NaN and the NaN quotient filled with 0
PointsPct(points_last, match_number, w) ==
    LET denom == 3 * Min(match_number, w)
    IN  fillna(IF denom = 0 THEN NaN ELSE RDiv(points_last, Num(denom)), Num(0))

\* add_rolling_features
add_rolling_features(long_df) ==
    [k \in 1..Len(long_df) |->
        LET row == long_df[k]
            before == PriorInGroup([rows |-> long_df], k, "team_id")
            cells(col) == [j \in 1..Len(before) |-> long_df[before[j]][col]]
            last_w == [col \in RollingCols |->
                         [w \in Windows |-> RollingSum(cells(col), w)]]
            rest_days_prev ==
                fillna(IF before = <<>> THEN NaN
                       ELSE long_df[before[Len(before)]].rest_days, Num(0))
        IN  [match_id |-> row.match_id, team_id |-> row.team_id,
             is_home |-> row.is_home, points |-> row.points,
             match_number |-> row.match_number,
             last |-> last_w,
             rest_days_prev |-> rest_days_prev,
             rest_days_capped |-> IF RLess(Num(28), rest_days_prev)
                                  THEN Num(28) ELSE rest_days_prev,
             rest_reset_flag |-> IF RLess(Num(35), rest_days_prev) THEN 1 ELSE 0,
             points_pct_last |->
                 [w \in Windows |-> PointsPct(last_w["points"][w], row.match_number, w)]]]

(***************************************************************************)
(* Leakage (specification SpecLeak): two result tables over one schedule,  *)
(* equal on every appearance of a team before a match, and the features    *)
(* the two pipelines attach to the team's side of that match               *)
(***************************************************************************)
MaxMatches == 3

TeamNames == << <<"A">>, <<"B">>, <<"C">> >>
\* the schedule: 1 v 2, 2 v 3, 3 v 1, 1 v 2, ... at growing intervals (days)
HomeOf(i) == ((i - 1) % 3) + 1
AwayOf(i) == (i % 3) + 1
Kickoff(i) == 7 * i * i

ResultColumns ==
    {"home_goals", "away_goals", "home_xg", "away_xg", "home_shots_for", "away_shots_for"}

\* the results a match can have
ResultList ==
    << [home_goals |-> 1, away_goals |-> 0, home_xg |-> 1, away_xg |-> 1,
        home_shots_for |-> 4, away_shots_for |-> 2],
       [home_goals |-> 0, away_goals |-> 2, home_xg |-> 0, away_xg |-> 2,
        home_shots_for |-> 2, away_shots_for |-> 8],
       [home_goals |-> 1, away_goals |-> 1, home_xg |-> 2, away_xg |-> 0,
        home_shots_for |-> 8, away_shots_for |-> 4] >>
Results == {ResultList[i] : i \in 1..Len(ResultList)}

\* the results of the first table: match i ended as ResultList[i], cyclically
FirstResults == [i \in 1..MaxMatches |-> ResultList[((i - 1) % Len(ResultList)) + 1]]

OutcomeCode(r) ==
    IF r.home_goals > r.away_goals THEN "H"
    ELSE IF r.home_goals < r.away_goals THEN "A" ELSE "D"

\* the match table with results[i] as the result of match i
ResultTable(results) ==
    [columns |-> ResultColumns,
     rows |-> [i \in 1..Len(results) |->
                 MatchRow(i, Kickoff(i), S24, HomeOf(i), TeamNames[HomeOf(i)],
                          AwayOf(i), TeamNames[AwayOf(i)], OutcomeCode(results[i]),
                          [c \in ResultColumns |-> Num(results[i][c])])]]

\* what build_league_results_v2 attaches to team's side of match
LeagueFeatures(matches, team, match) ==
    LET out == add_rolling_features(compute_team_view(matches))
    IN  out[CHOOSE k \in 1..Len(out) : out[k].team_id = team /\ out[k].match_id = match]

\* what the feature store derives for team's side of match: the prior rolling
\* means of the shots it took and allowed
ShotFeatures(matches, team, match) ==
    LET t == _augment_dataframe([matches EXCEPT !.rows = SortByTime(matches.rows)],
                                DEFAULT_ROLLING_WINDOW)
        row == t.rows[CHOOSE i \in 1..Len(t.rows) : t.rows[i].match_id = match]
    IN  IF row.home_team_id = team
        THEN <<row.num["home_shots_for_avg5"], row.num["home_shots_allowed_avg5"]>>
        ELSE <<row.num["away_shots_for_avg5"], row.num["away_shots_allowed_avg5"]>>

Plays(team, i) == HomeOf(i) = team \/ AwayOf(i) = team

InitLeak ==
    /\ \E match \in 1..MaxMatches :
       \E team \in {HomeOf(match), AwayOf(match)} :
          leak = [none |-> FALSE, pc |-> "tables", team |-> team, match |-> match,
                  a |-> FirstResults, b |-> FirstResults, fa |-> <<>>, fb |-> <<>>]
    /\ rows = {}
    /\ available = TRUE
    /\ lastSet = NoSet
    /\ ret = NoRet
    /\ StoresIdle
    /\ VerIdle
    /\ LeagueIdle
    /\ RaceIdle
    /\ PubIdle
    /\ ZsIdle

\* the second table gets another result for a match that is not an appearance
\* of the team before the match: the match itself, a later one, or one the
\* team did not play
ChangeResult(i, r) ==
    /\ leak.pc = "tables"
    /\ ~(Plays(leak.team, i) /\ Kickoff(i) < Kickoff(leak.match))
    /\ r # leak.b[i]
    /\ leak' = [leak EXCEPT !.b = [leak.b EXCEPT ![i] = r]]
    /\ UNCHANGED <<cacheVars, storeVars, ver, league, race, pub, zs>>

\* both pipelines run over both tables
Derive ==
    /\ leak.pc = "tables"
    /\ leak' = [leak EXCEPT
                  !.pc = "derived",
                  !.fa = [league |-> LeagueFeatures(ResultTable(leak.a), leak.team, leak.match),
                          shots |-> ShotFeatures(ResultTable(leak.a), leak.team, leak.match)],
                  !.fb = [league |-> LeagueFeatures(ResultTable(leak.b), leak.team, leak.match),
                          shots |-> ShotFeatures(ResultTable(leak.b), leak.team, leak.match)]]
    /\ UNCHANGED <<cacheVars, storeVars, ver, league, race, pub, zs>>

NextLeak ==
    \/ \E i \in 1..MaxMatches, r \in Results : ChangeResult(i, r)
    \/ Derive

SpecLeak == InitLeak /\ [][NextLeak]_vars

\* C3: two tables that agree on every appearance of team T before match M give
\* T's side of M the same rolling sums, points percentages, rest days and prior
\* rolling means of shots
C3_NoLeakage ==
    (~leak.none /\ leak.pc = "derived") => leak.fa = leak.fb

\* the part of C3 that build_league_results_v2 alone answers for
C3_LeagueFeaturesCausal ==
    (~leak.none /\ leak.pc = "derived") => leak.fa.league = leak.fb.league

(***************************************************************************)
(* Claims about names, lineage and the required feature list               *)
(***************************************************************************)
\* what get_fixture(season, home, away) of store s returns in the current
\* state: the error, or the match id and the feature map
Answer(s, season, home, away) ==
    LET loaded == DfOf(s)
        asked == IF season # <<>> THEN season ELSE latest_season(loaded)
        found == RowsByFixture(loaded, asked, home, away)
    IN  IF found = {}
        THEN [kind |-> "ValueError", match_id |-> 0, features |-> <<>>]
        ELSE LET row == loaded.table.rows[CHOOSE i \in found : \A j \in found : i <= j]
                 out == _build_features_from_row(s, loaded, row)
             IN  [kind |-> out.kind, match_id |-> row.match_id, features |-> out.features]

\* a capital letter and its small letter
CasePairs == {<<"A", "a">>, <<"B", "b">>, <<"C", "c">>, <<"D", "d">>}
Letters == {p[1] : p \in CasePairs} \cup {p[2] : p \in CasePairs}

EqualUpToCase(x, y) ==
    /\ Len(x) = Len(y)
    /\ \A i \in 1..Len(x) :
          x[i] = y[i] \/ <<x[i], y[i]>> \in CasePairs \/ <<y[i], x[i]>> \in CasePairs

\* the spellings of a name that differ from it in letter case only
Spellings(name) == {x \in [1..Len(name) -> Letters] : EqualUpToCase(x, name)}

C11_AnySpellingSameAnswer ==
    \A s \in Stores :
       \A i \in 1..Len(stores[s].csv.rows) :
          LET row == stores[s].csv.rows[i]
              exact == Answer(s, row.season, row.home_team_name, row.away_team_name)
          IN  /\ exact.kind # "ValueError"
              /\ \A home \in Spellings(row.home_team_name),
                    away \in Spellings(row.away_team_name) :
                    Answer(s, row.season, home, away) = exact

C11_NextSpellingSameAnswer ==
    (/\ last.op = "get_fixture" /\ last.kind = "ok"
     /\ last'.op = "get_fixture" /\ last'.kind = "ok"
     /\ last'.store = last.store
     /\ last'.arg_season = last.arg_season
     /\ EqualUpToCase(last'.arg_home, last.arg_home)
     /\ EqualUpToCase(last'.arg_away, last.arg_away))
        => /\ last'.match_id = last.match_id
           /\ last'.features = last.features

\* C11: get_fixture is case-insensitive on team names: every spelling of a
\* row's home and away names that differs in letter case only gets the answer
\* the row's own spelling gets (same match id, same feature map), in every
\* state of the cache, and so does a lookup that follows one with another
\* spelling
C11_CaseInsensitive ==
    [](C11_AnySpellingSameAnswer) /\ [][C11_NextSpellingSameAnswer]_vars

\* a lookup spelled otherwise than the row, answered from the cache
C11_Witness ==
    /\ last.op = "get_fixture" /\ last.kind = "ok" /\ last.how = "cached"
    /\ last.arg_home # last.home_team
    /\ EqualUpToCase(last.arg_home, last.home_team)
    /\ last.features # <<>>

\* the names of a sequence of names
NamesOf(q) == {q[i] : i \in 1..Len(q)}

\* C12: once a store has loaded its table, feature_lineage gives every required
\* name one origin: Direct when the name is a column of the file as read,
\* Derived when it is a column only after the derivation stage, Unknown when it
\* is a column at neither point
C12_LineageClassifies ==
    \A s \in Stores :
       ~df[s].none =>
          \A f \in NamesOf(required_features(s)) :
             LET before == stores[s].csv.columns
                 after == df[s].table.columns
                 origin == feature_lineage(df[s], f)
             IN  /\ origin \in {"direct", "derived", "unknown"}
                 /\ origin = "direct" <=> f \in before
                 /\ origin = "derived" <=> (f \in after /\ f \notin before)
                 /\ origin = "unknown" <=> (f \notin after /\ f \notin before)

\* a loaded store whose required names have all three origins
C12_Witness ==
    \E s \in Stores :
       /\ ~df[s].none
       /\ {feature_lineage(df[s], f) : f \in NamesOf(required_features(s))}
             = {"direct", "derived", "unknown"}

\* the place of the first occurrence of a name in the per-model lists: the
\* number of names before it in the model order
FirstPlace(lists, f) ==
    LET places == {<<m, k>> \in (1..Len(lists)) \X (1..3) :
                      k <= Len(lists[m]) /\ lists[m][k] = f}
        first == CHOOSE p \in places :
                    \A q \in places : p[1] < q[1] \/ (p[1] = q[1] /\ p[2] <= q[2])
    IN  3 * first[1] + first[2]

\* C13: the required feature list holds every name of the per-model lists once,
\* and no other name, in the order of the names' first occurrences
C13_RequiredFeaturesDeduplicated ==
    \A s \in Stores :
       LET lists == stores[s].model_features
           names == required_features(s)
       IN  /\ NamesOf(names) = UNION {NamesOf(lists[m]) : m \in 1..Len(lists)}
           /\ NoRepeat(names)
           /\ \A i, j \in 1..Len(names) :
                 i < j => FirstPlace(lists, names[i]) < FirstPlace(lists, names[j])

\* a recomputed map, keyed by the required list, for a store whose models share
\* a feature name
C13_Witness ==
    /\ last.op \in Lookups /\ last.kind = "ok" /\ last.how = "computed"
    /\ [i \in 1..Len(last.features) |-> last.features[i][1]] = required_features(last.store)
    /\ LET lists == stores[last.store].model_features
       IN  \E m, n \in 1..Len(lists) : m # n /\ NamesOf(lists[m]) \cap NamesOf(lists[n]) # {}


(***************************************************************************)
(* build_league_results_v2.main and the feature store over its output      *)
(* (specification SpecLeague)                                              *)
(***************************************************************************)
\* the matches of the schedule, and the matches whose result is chosen freely
MaxLeagueMatches == 17
MaxFree == 3

\* the name of the rolling sum of a metric over a window (line 123)
RollingTable ==
  {
    <<"points", 3, "points_last_3">>, <<"points", 5, "points_last_5">>,
      <<"points", 10, "points_last_10">>, <<"goals_for", 3, "goals_for_last_3">>,
      <<"goals_for", 5, "goals_for_last_5">>, <<"goals_for", 10, "goals_for_last_10">>,
      <<"goals_against", 3, "goals_against_last_3">>,
      <<"goals_against", 5, "goals_against_last_5">>,
      <<"goals_against", 10, "goals_against_last_10">>,
      <<"goal_diff", 3, "goal_diff_last_3">>, <<"goal_diff", 5, "goal_diff_last_5">>,
      <<"goal_diff", 10, "goal_diff_last_10">>, <<"xg_for", 3, "xg_for_last_3">>,
      <<"xg_for", 5, "xg_for_last_5">>, <<"xg_for", 10, "xg_for_last_10">>,
      <<"xg_against", 3, "xg_against_last_3">>,
      <<"xg_against", 5, "xg_against_last_5">>,
      <<"xg_against", 10, "xg_against_last_10">>, <<"xg_diff", 3, "xg_diff_last_3">>,
      <<"xg_diff", 5, "xg_diff_last_5">>, <<"xg_diff", 10, "xg_diff_last_10">> }
RollingName(col, w) == (CHOOSE t \in RollingTable : t[1] = col /\ t[2] = w)[3]

\* the name of the points percentage over a window (line 136)
PctTable ==
  { <<3, "points_pct_last_3">>, <<5, "points_pct_last_5">>, <<10, "points_pct_last_10">> }
PctName(w) == (CHOOSE t \in PctTable : t[1] = w)[2]

\* pivot_features: the columns of the long table that go to the wide table,
\* match_id being the index (lines 144-157)
FeatureCols ==
    {"match_number", "rest_days_prev", "rest_days_capped", "rest_reset_flag"}
       \cup {t[3] : t \in RollingTable} \cup {t[2] : t \in PctTable}

\* add_prefix("home_") and add_prefix("away_") (lines 162, 167)
PrefixTable ==
  {
    <<"home", "match_number", "home_match_number">>,
      <<"home", "rest_days_prev", "home_rest_days_prev">>,
      <<"home", "rest_days_capped", "home_rest_days_capped">>,
      <<"home", "rest_reset_flag", "home_rest_reset_flag">>,
      <<"home", "points_last_3", "home_points_last_3">>,
      <<"home", "points_last_5", "home_points_last_5">>,
      <<"home", "points_last_10", "home_points_last_10">>,
      <<"home", "goals_for_last_3", "home_goals_for_last_3">>,
      <<"home", "goals_for_last_5", "home_goals_for_last_5">>,
      <<"home", "goals_for_last_10", "home_goals_for_last_10">>,
      <<"home", "goals_against_last_3", "home_goals_against_last_3">>,
      <<"home", "goals_against_last_5", "home_goals_against_last_5">>,
      <<"home", "goals_against_last_10", "home_goals_against_last_10">>,
      <<"home", "goal_diff_last_3", "home_goal_diff_last_3">>,
      <<"home", "goal_diff_last_5", "home_goal_diff_last_5">>,
      <<"home", "goal_diff_last_10", "home_goal_diff_last_10">>,
      <<"home", "xg_for_last_3", "home_xg_for_last_3">>,
      <<"home", "xg_for_last_5", "home_xg_for_last_5">>,
      <<"home", "xg_for_last_10", "home_xg_for_last_10">>,
      <<"home", "xg_against_last_3", "home_xg_against_last_3">>,
      <<"home", "xg_against_last_5", "home_xg_against_last_5">>,
      <<"home", "xg_against_last_10", "home_xg_against_last_10">>,
      <<"home", "xg_diff_last_3", "home_xg_diff_last_3">>,
      <<"home", "xg_diff_last_5", "home_xg_diff_last_5">>,
      <<"home", "xg_diff_last_10", "home_xg_diff_last_10">>,
      <<"home", "points_pct_last_3", "home_points_pct_last_3">>,
      <<"home", "points_pct_last_5", "home_points_pct_last_5">>,
      <<"home", "points_pct_last_10", "home_points_pct_last_10">>,
      <<"away", "match_number", "away_match_number">>,
      <<"away", "rest_days_prev", "away_rest_days_prev">>,
      <<"away", "rest_days_capped", "away_rest_days_capped">>,
      <<"away", "rest_reset_flag", "away_rest_reset_flag">>,
      <<"away", "points_last_3", "away_points_last_3">>,
      <<"away", "points_last_5", "away_points_last_5">>,
      <<"away", "points_last_10", "away_points_last_10">>,
      <<"away", "goals_for_last_3", "away_goals_for_last_3">>,
      <<"away", "goals_for_last_5", "away_goals_for_last_5">>,
      <<"away", "goals_for_last_10", "away_goals_for_last_10">>,
      <<"away", "goals_against_last_3", "away_goals_against_last_3">>,
      <<"away", "goals_against_last_5", "away_goals_against_last_5">>,
      <<"away", "goals_against_last_10", "away_goals_against_last_10">>,
      <<"away", "goal_diff_last_3", "away_goal_diff_last_3">>,
      <<"away", "goal_diff_last_5", "away_goal_diff_last_5">>,
      <<"away", "goal_diff_last_10", "away_goal_diff_last_10">>,
      <<"away", "xg_for_last_3", "away_xg_for_last_3">>,
      <<"away", "xg_for_last_5", "away_xg_for_last_5">>,
      <<"away", "xg_for_last_10", "away_xg_for_last_10">>,
      <<"away", "xg_against_last_3", "away_xg_against_last_3">>,
      <<"away", "xg_against_last_5", "away_xg_against_last_5">>,
      <<"away", "xg_against_last_10", "away_xg_against_last_10">>,
      <<"away", "xg_diff_last_3", "away_xg_diff_last_3">>,
      <<"away", "xg_diff_last_5", "away_xg_diff_last_5">>,
      <<"away", "xg_diff_last_10", "away_xg_diff_last_10">>,
      <<"away", "points_pct_last_3", "away_points_pct_last_3">>,
      <<"away", "points_pct_last_5", "away_points_pct_last_5">>,
      <<"away", "points_pct_last_10", "away_points_pct_last_10">> }
Prefixed(side, name) == (CHOOSE t \in PrefixTable : t[1] = side /\ t[2] = name)[3]

\* the row of the long table for one side of a match
SideRow(long_df, match_id, is_home) ==
    long_df[CHOOSE k \in 1..Len(long_df) :
               long_df[k].match_id = match_id /\ long_df[k].is_home = is_home]

\* the cell of a row of the long table under a column name
LongValue(row, name) ==
    CASE name = "match_number" -> Num(row.match_number)
      [] name = "rest_days_prev" -> row.rest_days_prev
      [] name = "rest_days_capped" -> row.rest_days_capped
      [] name = "rest_reset_flag" -> Num(row.rest_reset_flag)
      [] name \in {t[2] : t \in PctTable} ->
            row.points_pct_last[CHOOSE w \in Windows : PctName(w) = name]
      [] OTHER ->
            LET t == CHOOSE x \in RollingTable : x[3] = name
            IN  row.last[t[1]][t[2]]

\* the length of a season in matches per team (line 196)
SeasonLength == 38

\* the pairwise columns of lines 177-200
PairCols ==
    {"home_matches_played", "away_matches_played", "form_diff_last5",
     "form_pct_diff_last5", "xg_diff_last5", "rest_diff", "rest_reset_flag_pair",
     "season_phase_home", "season_phase_away"}

\* matches_played / 38.0, clipped at 1
season_phase(matches_played) ==
    IF matches_played > SeasonLength THEN Num(1) ELSE Rat(matches_played, SeasonLength)

PairValue(h, a, name) ==
    CASE name = "home_matches_played" -> Num(h.match_number)
      [] name = "away_matches_played" -> Num(a.match_number)
      [] name = "form_diff_last5" -> RSub(h.last["points"][5], a.last["points"][5])
      [] name = "form_pct_diff_last5" -> RSub(h.points_pct_last[5], a.points_pct_last[5])
      [] name = "xg_diff_last5" -> RSub(h.last["xg_diff"][5], a.last["xg_diff"][5])
      [] name = "rest_diff" -> RSub(h.rest_days_capped, a.rest_days_capped)
      [] name = "rest_reset_flag_pair" ->
            Num(IF h.rest_reset_flag = 1 \/ a.rest_reset_flag = 1 THEN 1 ELSE 0)
      [] name = "season_phase_home" -> season_phase(h.match_number)
      [] name = "season_phase_away" -> season_phase(a.match_number)

\* pivot_features: every match row joined with the long rows of its two sides
pivot_features(matches, long_df) ==
    LET home_cols == {Prefixed("home", n) : n \in FeatureCols}
        away_cols == {Prefixed("away", n) : n \in FeatureCols}
        columns == matches.columns \cup home_cols \cup away_cols \cup PairCols
    IN  [columns |-> columns,
         rows |-> [i \in 1..Len(matches.rows) |->
            LET m == matches.rows[i]
                h == SideRow(long_df, m.match_id, 1)
                a == SideRow(long_df, m.match_id, 0)
            IN  [m EXCEPT !.num =
                   [c \in columns |->
                      IF c \in matches.columns THEN m.num[c]
                      ELSE IF c \in home_cols
                      THEN LongValue(h, CHOOSE n \in FeatureCols : Prefixed("home", n) = c)
                      ELSE IF c \in away_cols
                      THEN LongValue(a, CHOOSE n \in FeatureCols : Prefixed("away", n) = c)
                      ELSE PairValue(h, a, c)]]]]

\* epsilon of add_market_features (line 206) and 1 - epsilon
epsilon == <<1, 1000000>>
one_minus_epsilon == <<999999, 1000000>>

clip_keeps_all(v, lower, upper) == v

\* Series.clip(lower, upper) of one cell: NaN stays NaN
clip(v, lower, upper) ==
    IF IsNaN(v) THEN v
    ELSE IF RLess(v, lower) THEN lower
    ELSE IF RLess(upper, v) THEN upper ELSE v

MarketCols ==
    {"market_home_edge", "market_expected_points_home", "market_expected_points_away",
     "market_max_prob"}

\* DataFrame.max(axis=1) of three cells: the largest cell that is not NaN
Max3(x, y, z) ==
    LET xs == SortNums(DropNaN(<<x, y, z>>))
    IN  IF xs = <<>> THEN NaN ELSE xs[Len(xs)]

\* add_market_features on one row (the entropy and the log-odds of lines
\* 223-230 are logarithms, with no rational value, and are left out)
MarketRow(num) ==
    LET h == clip(num["forecast_home_win"], epsilon, one_minus_epsilon)
        d == clip(num["forecast_draw"], epsilon, one_minus_epsilon)
        a == clip(num["forecast_away_win"], epsilon, one_minus_epsilon)
        total == RAdd(RAdd(h, d), a)
        home == RDiv(h, total)
        draw == RDiv(d, total)
        away == RDiv(a, total)
    IN  [c \in DOMAIN num \cup MarketCols |->
           CASE c = "forecast_home_win" -> home
             [] c = "forecast_draw" -> draw
             [] c = "forecast_away_win" -> away
             [] c = "market_home_edge" -> RSub(home, away)
             [] c = "market_expected_points_home" -> RAdd(RMul(Num(3), home), draw)
             [] c = "market_expected_points_away" -> RAdd(RMul(Num(3), away), draw)
             [] c = "market_max_prob" -> Max3(home, draw, away)
             [] OTHER -> num[c]]

add_market_features(d) ==
    [columns |-> d.columns \cup MarketCols,
     rows |-> [i \in 1..Len(d.rows) |-> [d.rows[i] EXCEPT !.num = MarketRow(@)]]]

\* the results a match of the league can have: goals, expected goals and the
\* market's forecast, a cell that did not parse being NaN (load_v1, line 45)
LeagueResultList ==
    << [home_goals |-> Num(2), away_goals |-> Num(1),
        home_xg |-> <<3, 2>>, away_xg |-> <<1, 2>>,
        forecast_home_win |-> <<11, 20>>, forecast_draw |-> <<1, 4>>,
        forecast_away_win |-> <<1, 5>>],
       [home_goals |-> Num(0), away_goals |-> Num(0),
        home_xg |-> Num(1), away_xg |-> Num(1),
        forecast_home_win |-> <<1, 2>>, forecast_draw |-> <<3, 10>>,
        forecast_away_win |-> <<3, 10>>],
       [home_goals |-> Num(1), away_goals |-> Num(3),
        home_xg |-> NaN, away_xg |-> Num(2),
        forecast_home_win |-> Num(1), forecast_draw |-> Num(0),
        forecast_away_win |-> Num(0)],
       [home_goals |-> Num(1), away_goals |-> Num(1),
        home_xg |-> <<1, 2>>, away_xg |-> <<3, 2>>,
        forecast_home_win |-> NaN, forecast_draw |-> <<1, 4>>,
        forecast_away_win |-> <<1, 5>>] >>

LeagueColumns == DOMAIN LeagueResultList[1]

LeagueOutcome(r) ==
    IF RLess(r.away_goals, r.home_goals) THEN "H"
    ELSE IF RLess(r.home_goals, r.away_goals) THEN "A" ELSE "D"

\* load_v1: the match table in kickoff order, match i ending as the result
\* results[i] names
LeagueTable(results) ==
    [columns |-> LeagueColumns,
     rows |-> [i \in 1..Len(results) |->
                 MatchRow(i, Kickoff(i), S24, HomeOf(i), TeamNames[HomeOf(i)],
                          AwayOf(i), TeamNames[AwayOf(i)],
                          LeagueOutcome(LeagueResultList[results[i]]),
                          LeagueResultList[results[i]])]]

\* the tables of the model: the first MaxFree results are any, the later ones
\* go through the list in turn
LeagueTables ==
    {[i \in 1..MaxLeagueMatches |->
         IF i <= MaxFree THEN f[i] ELSE ((i - 1) % Len(LeagueResultList)) + 1] :
       f \in [1..MaxFree -> 1..Len(LeagueResultList)]}

InitLeague ==
    /\ \E results \in LeagueTables :
          league = [none |-> FALSE, pc |-> "v1", results |-> results,
                    long_df |-> <<>>, enriched |-> <<>>, df |-> <<>>]
    /\ rows = {}
    /\ available = TRUE
    /\ lastSet = NoSet
    /\ ret = NoRet
    /\ StoresIdle
    /\ VerIdle
    /\ LeakIdle
    /\ RaceIdle
    /\ PubIdle
    /\ ZsIdle

\* build_league_results_v2.main: the long table and the wide table written to
\* league_results_v2.csv (add_targets and reorder_columns change no feature)
BuildLeague ==
    /\ league.pc = "v1"
    /\ LET matches_v1 == LeagueTable(league.results)
           long_df == add_rolling_features(compute_team_view(matches_v1))
       IN  league' = [league EXCEPT
                        !.pc = "v2",
                        !.long_df = long_df,
                        !.enriched = add_market_features(pivot_features(matches_v1, long_df))]
    /\ UNCHANGED <<cacheVars, storeVars, ver, leak, race, pub, zs>>

\* FeatureStore.df over the file main wrote: the rows in kickoff order and the
\* derivation stage
LoadLeague ==
    /\ league.pc = "v2"
    /\ league' = [league EXCEPT
                    !.pc = "loaded",
                    !.df = _augment_dataframe(
                               [league.enriched EXCEPT !.rows = SortByTime(@)],
                               DEFAULT_ROLLING_WINDOW)]
    /\ UNCHANGED <<cacheVars, storeVars, ver, leak, race, pub, zs>>

NextLeague == BuildLeague \/ LoadLeague

SpecLeague == InitLeague /\ [][NextLeague]_vars


(***************************************************************************)
(* Claims about the league pipeline, stated over the schedule and the      *)
(* results of the table                                                    *)
(***************************************************************************)
LeagueTeams == 1..Len(TeamNames)
LeagueBuilt == ~league.none /\ league.pc # "v1"
LeagueLoaded == ~league.none /\ league.pc = "loaded"

\* the matches team played before match, latest last
EarlierMatches(team, match) ==
    Ascending({j \in 1..MaxLeagueMatches : Plays(team, j) /\ Kickoff(j) < Kickoff(match)})

\* what the result of a match was worth to a team in one metric, a value that
\* did not parse counting as 0
MetricOf(team, match, col) ==
    LET r == LeagueResultList[league.results[match]]
        at_home == HomeOf(match) = team
        gf == IF at_home THEN r.home_goals ELSE r.away_goals
        ga == IF at_home THEN r.away_goals ELSE r.home_goals
        xf == IF at_home THEN r.home_xg ELSE r.away_xg
        xa == IF at_home THEN r.away_xg ELSE r.home_xg
        won == RLess(ga, gf)
        lost == RLess(gf, ga)
    IN  fillna(CASE col = "points" -> Num(IF won THEN 3 ELSE IF lost THEN 0 ELSE 1)
                 [] col = "goals_for" -> gf
                 [] col = "goals_against" -> ga
                 [] col = "goal_diff" -> RSub(gf, ga)
                 [] col = "xg_for" -> xf
                 [] col = "xg_against" -> xa
                 [] col = "xg_diff" -> RSub(xf, xa),
               Num(0))

\* the row the long table holds for a team's appearance in a match
Appearance(team, match) ==
    league.long_df[CHOOSE k \in 1..Len(league.long_df) :
                      /\ league.long_df[k].team_id = team
                      /\ league.long_df[k].match_id = match]

Appearances == {<<t, m>> \in LeagueTeams \X (1..MaxLeagueMatches) : Plays(t, m)}

\* C14: the feature <metric>_last_W of an appearance with k earlier appearances
\* of the team is the sum of the metric over the latest min(W, k) of them, and
\* 0 when k = 0, for the seven metrics and W in {3, 5, 10}
C14_RollingSums ==
    LeagueBuilt =>
       \A tm \in Appearances, col \in RollingCols, w \in Windows :
          LET earlier == EarlierMatches(tm[1], tm[2])
              k == Len(earlier)
              n == IF w <= k THEN w ELSE k
          IN  Appearance(tm[1], tm[2]).last[col][w]
                 = SumNums([j \in 1..n |-> MetricOf(tm[1], earlier[k - n + j], col)])

\* an appearance with more than ten earlier ones, whose three windows differ
C14_Witness ==
    /\ LeagueBuilt
    /\ \E tm \in Appearances :
          /\ Len(EarlierMatches(tm[1], tm[2])) > 10
          /\ Appearance(tm[1], tm[2]).last["points"][3]
                # Appearance(tm[1], tm[2]).last["points"][5]
          /\ Appearance(tm[1], tm[2]).last["points"][5]
                # Appearance(tm[1], tm[2]).last["points"][10]

\* C15: the match numbers of a team grow strictly with the kickoff, and each is
\* the count of the team's earlier appearances, from 0
C15_MatchNumbers ==
    LeagueBuilt =>
       /\ \A tm \in Appearances :
             Appearance(tm[1], tm[2]).match_number
                = Cardinality({j \in 1..MaxLeagueMatches :
                                  Plays(tm[1], j) /\ Kickoff(j) < Kickoff(tm[2])})
       /\ \A tm \in Appearances, j \in 1..MaxLeagueMatches :
             (Plays(tm[1], j) /\ Kickoff(tm[2]) < Kickoff(j))
                => Appearance(tm[1], tm[2]).match_number
                      < Appearance(tm[1], j).match_number

\* a team's first, second and third appearance, numbered
C15_Witness ==
    /\ LeagueBuilt
    /\ \E t \in LeagueTeams :
          {0, 1, 2} \subseteq {Appearance(t, m).match_number :
                                  m \in {j \in 1..MaxLeagueMatches : Plays(t, j)}}

\* C16: rest_days_prev of an appearance that is not the team's first is the
\* number of days from the team's preceding kickoff to this kickoff
C16_RestDaysSincePreceding ==
    LeagueBuilt =>
       \A tm \in Appearances :
          LET earlier == EarlierMatches(tm[1], tm[2])
          IN  earlier # <<>> =>
                 Appearance(tm[1], tm[2]).rest_days_prev
                    = Num(Kickoff(tm[2]) - Kickoff(earlier[Len(earlier)]))

\* what add_rolling_features stores instead: the rest before the preceding
\* appearance
C16_RestDaysOfPrecedingAppearance ==
    LeagueBuilt =>
       \A tm \in Appearances :
          LET earlier == EarlierMatches(tm[1], tm[2])
              k == Len(earlier)
          IN  Appearance(tm[1], tm[2]).rest_days_prev
                 = IF k < 2 THEN Num(0)
                   ELSE Num(Kickoff(earlier[k]) - Kickoff(earlier[k - 1]))

\* C17: rest_days_prev is never negative, and a team's first appearance has
\* rest_days_prev = 0 and rest_reset_flag = 0
C17_RestDaysNonNegative ==
    LeagueBuilt =>
       \A tm \in Appearances :
          LET row == Appearance(tm[1], tm[2])
          IN  /\ ~IsNaN(row.rest_days_prev)
              /\ ~RLess(row.rest_days_prev, Num(0))
              /\ EarlierMatches(tm[1], tm[2]) = <<>>
                    => row.rest_days_prev = Num(0) /\ row.rest_reset_flag = 0

\* a first appearance, and a later one with the long-rest flag up
C17_Witness ==
    /\ LeagueBuilt
    /\ \E tm \in Appearances : EarlierMatches(tm[1], tm[2]) = <<>>
    /\ \E tm \in Appearances :
          /\ Appearance(tm[1], tm[2]).rest_reset_flag = 1
          /\ RLess(Num(35), Appearance(tm[1], tm[2]).rest_days_prev)

\* C18: points_pct_last_W is points_last_W / (3 * min(W, match_number)), 0 when
\* match_number is 0, and lies between 0 and 1
C18_PointsPct ==
    LeagueBuilt =>
       \A tm \in Appearances, w \in Windows :
          LET row == Appearance(tm[1], tm[2])
              k == row.match_number
              pct == row.points_pct_last[w]
          IN  /\ k = 0 => pct = Num(0)
              /\ k > 0 => pct = Rat(row.last["points"][w][1],
                                     row.last["points"][w][2] * 3 * (IF w <= k THEN w ELSE k))
              /\ ~RLess(pct, Num(0))
              /\ ~RLess(Num(1), pct)

\* a first appearance, and an appearance short of the window with a share of
\* the points strictly between 0 and 1
C18_Witness ==
    /\ LeagueBuilt
    /\ \E tm \in Appearances : Appearance(tm[1], tm[2]).match_number = 0
    /\ \E tm \in Appearances :
          /\ Appearance(tm[1], tm[2]).match_number \in 1..4
          /\ RLess(Num(0), Appearance(tm[1], tm[2]).points_pct_last[5])
          /\ RLess(Appearance(tm[1], tm[2]).points_pct_last[5], Num(1))

\* the forecast of a match as the table gives it, and as the wide table holds it
RawForecast(i) ==
    LET r == LeagueResultList[league.results[i]]
    IN  <<r.forecast_home_win, r.forecast_draw, r.forecast_away_win>>
Forecast(i) ==
    LET num == league.enriched.rows[i].num
    IN  <<num["forecast_home_win"], num["forecast_draw"], num["forecast_away_win"]>>

InsideUnit(p) == RLess(Num(0), p) /\ RLess(p, Num(1))

Normalized(i) ==
    LET raw == RawForecast(i)
        out == Forecast(i)
    IN  /\ RAdd(RAdd(out[1], out[2]), out[3]) = Num(1)
        /\ \A j \in 1..3 : InsideUnit(out[j])
        /\ (/\ RAdd(RAdd(raw[1], raw[2]), raw[3]) = Num(1)
            /\ \A j \in 1..3 : ~RLess(raw[j], epsilon) /\ ~RLess(one_minus_epsilon, raw[j]))
              => out = raw
        /\ league.enriched.rows[i].num["market_home_edge"] = RSub(out[1], out[3])

\* C19: after add_market_features the three forecast probabilities of every
\* row sum to 1 and lie strictly between 0 and 1, a triple that summed to 1
\* with components in [1e-6, 1 - 1e-6] is unchanged, and market_home_edge is
\* the home probability minus the away probability
C19_MarketNormalized ==
    LeagueBuilt => \A i \in 1..MaxLeagueMatches : Normalized(i)

\* what holds instead: the rows whose three forecasts all parsed are normalized
C19_NormalizedWhereForecastParsed ==
    LeagueBuilt =>
       \A i \in 1..MaxLeagueMatches :
          (\A j \in 1..3 : ~IsNaN(RawForecast(i)[j])) => Normalized(i)

SmoothedMetrics == {"goals_for", "goals_against", "xg_for", "xg_against", "points"}
Sides == {"home", "away"}

Avg5Table ==
    {<<"home", "goals_for", "home_goals_for_avg5">>,
     <<"home", "goals_against", "home_goals_against_avg5">>,
     <<"home", "xg_for", "home_xg_for_avg5">>,
     <<"home", "xg_against", "home_xg_against_avg5">>,
     <<"home", "points", "home_points_avg5">>,
     <<"away", "goals_for", "away_goals_for_avg5">>,
     <<"away", "goals_against", "away_goals_against_avg5">>,
     <<"away", "xg_for", "away_xg_for_avg5">>,
     <<"away", "xg_against", "away_xg_against_avg5">>,
     <<"away", "points", "away_points_avg5">>}
Avg5Name(side, metric) ==
    (CHOOSE t \in Avg5Table : t[1] = side /\ t[2] = metric)[3]

\* the games behind the fixture in row i for one side, capped at the window:
\* the matches the side's team played before it ("appearances"), or the rows
\* before it with the same season and the same team on that side ("venue")
GamesBefore(i, side, counted) ==
    LET row == league.df.rows[i]
        team == IF side = "home" THEN row.home_team_id ELSE row.away_team_id
        played == IF counted = "appearances"
                  THEN Len(EarlierMatches(team, row.match_id))
                  ELSE Cardinality({j \in 1..(i - 1) :
                          /\ league.df.rows[j].season = row.season
                          /\ IF side = "home"
                             THEN league.df.rows[j].home_team_id = team
                             ELSE league.df.rows[j].away_team_id = team})
    IN  IF played <= DEFAULT_ROLLING_WINDOW THEN played ELSE DEFAULT_ROLLING_WINDOW

WindowSum(i, side, metric) ==
    league.df.rows[i].num[Prefixed(side, RollingName(metric, DEFAULT_ROLLING_WINDOW))]

\* the mean of the per-match rates of the rows with games > 0, 0 without any
PriorRate(side, metric, counted) ==
    fillna(Mean([i \in 1..Len(league.df.rows) |->
                    IF GamesBefore(i, side, counted) = 0 THEN NaN
                    ELSE RDiv(WindowSum(i, side, metric),
                              Num(GamesBefore(i, side, counted)))]),
           Num(0))

\* frac * (window_sum / games) + (1 - frac) * prior as a float32, the prior
\* when games = 0
Smoothed(i, side, metric, counted) ==
    LET games == GamesBefore(i, side, counted)
        frac == Rat(games, DEFAULT_ROLLING_WINDOW)
        prior == PriorRate(side, metric, counted)
        rate == IF games = 0 THEN prior ELSE RDiv(WindowSum(i, side, metric), Num(games))
    IN  astype_float32(RAdd(RMul(frac, rate), RMul(RSub(Num(1), frac), prior)))

\* C20: the smoothed average is frac * (window_sum / games) + (1 - frac) * prior
\* with games = min(W, matches the team played before the fixture), frac =
\* games / W, window_sum the rolling sum over the last W earlier appearances
\* and prior the mean of the per-match rates of the rows with games > 0; it is
\* the prior when games = 0
C20_SmoothedAverage ==
    LeagueLoaded =>
       \A i \in 1..Len(league.df.rows), side \in Sides, metric \in SmoothedMetrics :
          league.df.rows[i].num[Avg5Name(side, metric)]
             = Smoothed(i, side, metric, "appearances")

\* what _prepare_smoothed_form computes instead: games counts the earlier rows
\* of the season with the team on the same side
C20_SmoothedOverVenueGames ==
    LeagueLoaded =>
       \A i \in 1..Len(league.df.rows), side \in Sides, metric \in SmoothedMetrics :
          league.df.rows[i].num[Avg5Name(side, metric)]
             = Smoothed(i, side, metric, "venue")


(***************************************************************************)
(* Claims about the derived features of a returned map                     *)
(***************************************************************************)
\* the line of store s's dataset file with match id
RawRow(s, id) ==
    LET t == stores[s].csv.rows
    IN  t[CHOOSE i \in 1..Len(t) : t[i].match_id = id]

\* the lines of store s's file that kick off before match id, in the same
\* season, with the same team on the given side
EarlierRows(s, id, side) ==
    LET t == stores[s].csv.rows
        row == RawRow(s, id)
    IN  {j \in 1..Len(t) :
            /\ t[j].match_datetime_utc < row.match_datetime_utc
            /\ t[j].season = row.season
            /\ IF side = "home" THEN t[j].home_team_name = row.home_team_name
               ELSE t[j].away_team_name = row.away_team_name}

\* min(W, n) / W as the float32 the table holds
GamesFrac(s, id, side) ==
    LET n == Cardinality(EarlierRows(s, id, side))
        w == stores[s].rolling_window
    IN  astype_float32(Rat(IF n <= w THEN n ELSE w, w))

FracName(side) ==
    IF side = "home" THEN "home_recent_games_frac" ELSE "away_recent_games_frac"

\* the map x.features gives the required name the value v
Returns(x, name, v) ==
    name \in NamesOf(required_features(x.store))
       => name \in DictKeys(x.features) /\ DictGet(x.features, name) = v

ReturnsGamesFrac(x) ==
    \A side \in {"home", "away"} :
       /\ Returns(x, FracName(side), GamesFrac(x.store, x.match_id, side))
       /\ FracName(side) \in DictKeys(x.features)
             => /\ ~RLess(DictGet(x.features, FracName(side)), Num(0))
                /\ ~RLess(Num(1), DictGet(x.features, FracName(side)))

\* C21: the home_recent_games_frac a lookup returns is min(W, n) / W, n being
\* the rows earlier in kickoff order with the same season and the same home
\* team, away_recent_games_frac is the same over the away team's earlier away
\* rows, and both lie in [0, 1]
C21_RecentGamesFrac ==
    (last.op \in Lookups /\ last.kind = "ok") => ReturnsGamesFrac(last)

\* what holds instead: the maps a lookup computes from the table
C21_ComputedGamesFrac ==
    (last.op \in Lookups /\ last.kind = "ok" /\ last.how = "computed")
       => ReturnsGamesFrac(last)

\* forecast_home_win - forecast_away_win of the file's line as a float32, 0.0
\* when a forecast is missing
RawEdge(s, id) ==
    fillna(astype_float32(RSub(RawRow(s, id).num["forecast_home_win"],
                               RawRow(s, id).num["forecast_away_win"])),
           Num(0))

\* C22: the prob_edge a lookup returns is the forecast_home_win of the
\* fixture's line in the dataset file minus its forecast_away_win
C22_ProbEdge ==
    (last.op \in Lookups /\ last.kind = "ok")
       => Returns(last, "prob_edge", RawEdge(last.store, last.match_id))

\* what holds instead: the maps a lookup computes from the table
C22_ComputedProbEdge ==
    (last.op \in Lookups /\ last.kind = "ok" /\ last.how = "computed")
       => Returns(last, "prob_edge", RawEdge(last.store, last.match_id))


(***************************************************************************)
(* Two stores looking up one fixture through one cache file                *)
(* (specification SpecRace): the cache read and the cache write of         *)
(* _build_features_from_row are separate steps, each one SQL statement     *)
(***************************************************************************)
ShotColumns ==
    {"forecast_home_win", "forecast_away_win", "home_shots_for", "away_shots_for"}

\* a dataset file with shot counts: A - B twice in season 25 and once in season
\* 24; the home shot count of match 2 is missing
Csv3 ==
    [columns |-> ShotColumns,
     rows |-> << MatchRow(1, 10, S25, 1, TeamA, 2, TeamB, "H",
                          [c \in ShotColumns |->
                             CASE c = "forecast_home_win" -> <<1, 2>>
                               [] c = "forecast_away_win" -> <<1, 4>>
                               [] c = "home_shots_for" -> Num(10)
                               [] OTHER -> Num(8)]),
                 MatchRow(2, 20, S25, 1, TeamA, 2, TeamB, "A",
                          [c \in ShotColumns |->
                             CASE c = "forecast_home_win" -> <<1, 4>>
                               [] c = "forecast_away_win" -> <<1, 2>>
                               [] c = "home_shots_for" -> NaN
                               [] OTHER -> Num(6)]),
                 MatchRow(3, 5, S24, 1, TeamA, 2, TeamB, "D",
                          [c \in ShotColumns |->
                             CASE c = "forecast_home_win" -> <<1, 4>>
                               [] c = "forecast_away_win" -> <<1, 4>>
                               [] c = "home_shots_for" -> Num(14)
                               [] OTHER -> Num(4)]) >>]

\* feature lists that name shot columns of the file and of the derivation
ModelFeatures3 ==
    << <<"home_shots_for", "away_shots_for", "prob_edge">>,
       <<"forecast_away_win", "home_shots_for_avg5">> >>

\* the feature lists and the files the two stores share
RaceFeatures == {ModelFeatures1, ModelFeatures2, ModelFeatures0, ModelFeatures3}
RaceFiles == {Csv1, Csv2, Csv3}

\* the lookups: by match id, or by season and names
RaceRequests ==
    {[op |-> "get_fixture_by_id", match_id |-> m, fixture |-> <<>>] : m \in MatchIds}
       \cup {[op |-> "get_fixture", match_id |-> 0, fixture |-> f] : f \in Fixtures}

NoResult == [kind |-> "none", how |-> "none", match_id |-> 0, features |-> <<>>]

InitRace ==
    /\ \E model_features \in RaceFeatures, csv \in RaceFiles :
          stores = [s \in Stores |->
                      [dataset_version |-> V7, dataset_mtime |-> 0, csv |-> csv,
                       rolling_window |-> DEFAULT_ROLLING_WINDOW,
                       model_features |-> model_features, has_cache |-> TRUE]]
    /\ \E request \in RaceRequests :
          race = [none |-> FALSE, request |-> request,
                  pc |-> [s \in Stores |-> "start"],
                  key |-> [s \in Stores |-> <<>>],
                  result |-> [s \in Stores |-> NoResult]]
    /\ rows = {}
    /\ available = TRUE
    /\ lastSet = NoSet
    /\ ret = NoRet
    /\ df = [s \in Stores |-> NoneRec]
    /\ logged = [s \in Stores |-> {}]
    /\ warnings = [s \in Stores |-> <<>>]
    /\ last = NoLookup
    /\ VerIdle
    /\ LeakIdle
    /\ LeagueIdle
    /\ PubIdle
    /\ ZsIdle

\* the rows the request selects in a loaded table
RaceFound(loaded, request) ==
    IF request.op = "get_fixture_by_id" THEN RowsById(loaded, request.match_id)
    ELSE RowsByFixture(loaded,
                       IF request.fixture[1] # <<>> THEN request.fixture[1]
                       ELSE latest_season(loaded),
                       request.fixture[2], request.fixture[3])

\* the row _build_features_from_row is called with: the first one found
RaceRow(loaded, found) ==
    loaded.table.rows[CHOOSE i \in found : \A j \in found : i <= j]

\* what the lookup of store s comes to once the table is loaded and the rows
\* are selected: ValueError when there is none, otherwise the cache is read
RaceLookup(s, loaded, found) ==
    IF found = {}
    THEN [race EXCEPT !.pc[s] = "done",
                      !.result[s] = [NoResult EXCEPT !.kind = "ValueError"]]
    ELSE LET row == RaceRow(loaded, found)
             key == CacheKeyOf(s, row)
             cached == FeatureCache_get(rows, available, key[1], key[2], key[3], key[4],
                                        stores[s].dataset_mtime)
         IN  IF cached.kind = "error"
             THEN [race EXCEPT !.pc[s] = "done", !.key[s] = key,
                               !.result[s] = [NoResult EXCEPT !.kind = "error"]]
             ELSE IF cached.kind = "dict" /\ cached.value # <<>>
             THEN [race EXCEPT !.pc[s] = "done", !.key[s] = key,
                               !.result[s] = [kind |-> "ok", how |-> "cached",
                                              match_id |-> row.match_id,
                                              features |-> cached.value]]
             ELSE [race EXCEPT !.pc[s] = "miss", !.key[s] = key]

\* store s starts its lookup: the table is loaded, the row selected and the
\* cache read (lines 352-393)
RaceRead(s) ==
    /\ race.pc[s] = "start"
    /\ LET loaded == DfOf(s)
       IN  /\ df' = [df EXCEPT ![s] = loaded]
           /\ race' = RaceLookup(s, loaded, RaceFound(loaded, race.request))
    /\ UNCHANGED <<cacheVars, stores, logged, warnings, last, ver, leak, league, pub, zs>>

\* what store s builds after a miss, writes to the cache and returns
RaceBuild(s, loaded, row) ==
    LET key == race.key[s]
        built == BuildLoop(required_features(s), loaded, row,
                           [features |-> <<>>, logged |-> logged[s], warned |-> <<>>])
    IN  /\ rows' = FeatureCache_set(rows, key[1], key[2], key[3], key[4],
                                    stores[s].dataset_mtime, row.match_id,
                                    built.features)
        /\ logged' = [logged EXCEPT ![s] = built.logged]
        /\ warnings' = [warnings EXCEPT ![s] = @ \o built.warned]
        /\ race' = [race EXCEPT !.pc[s] = "done",
                                !.result[s] = [kind |-> "ok", how |-> "computed",
                                               match_id |-> row.match_id,
                                               features |-> built.features]]

\* store s, after a miss, builds the map, writes it to the cache and returns it
\* (lines 394-425)
RaceWrite(s) ==
    /\ race.pc[s] = "miss"
    /\ RaceBuild(s, df[s], RaceRow(df[s], RaceFound(df[s], race.request)))
    /\ UNCHANGED <<available, lastSet, ret, stores, df, last, ver, leak, league, pub, zs>>

NextRace == \E s \in Stores : RaceRead(s) \/ RaceWrite(s)

SpecRace == InitRace /\ [][NextRace]_vars

RaceOver == ~race.none /\ \A s \in Stores : race.pc[s] = "done"

\* C23: two stores over the same file with the same feature list look up the
\* same fixture through one cache: however their cache reads and writes
\* interleave, both return the same map, and the cache ends with one entry for
\* the key, whose payload is that map
C23_RacingWriters ==
    /\ ~race.none => \A k \in CacheKeys : Cardinality({r \in rows : RowKey(r) = k}) <= 1
    /\ RaceOver =>
          /\ race.result[1].kind = race.result[2].kind
          /\ race.result[1].kind \in {"ok", "ValueError"}
          /\ race.result[1].match_id = race.result[2].match_id
          /\ race.result[1].features = race.result[2].features
          /\ race.result[1].kind = "ok" =>
                \E r \in rows :
                   /\ RowKey(r) = race.key[1]
                   /\ RowKey(r) = race.key[2]
                   /\ {x \in rows : RowKey(x) = RowKey(r)} = {r}
                   /\ rows = {r}
                   /\ r.payload.valid
                   /\ json_loads(r.payload) = race.result[1].features
                   /\ r.match_id = race.result[1].match_id

\* both stores missed, both computed and both wrote a map with a negative value
C23_Witness ==
    /\ RaceOver
    /\ \A s \in Stores : race.result[s].how = "computed"
    /\ \E i \in 1..Len(race.result[1].features) : race.result[1].features[i][2][1] < 0

(***************************************************************************)
(* Claims about the team view of the league pipeline                       *)
(***************************************************************************)
\* the rows of the long table that belong to a match
RowsOfMatch(m) == {k \in 1..Len(league.long_df) : league.long_df[k].match_id = m}

\* the outcome code of a match of the table
CodeOf(m) == LeagueTable(league.results).rows[m].match_outcome_code

\* C24: each match yields exactly two team appearances, one flagged home and
\* one flagged away, with points by the outcome code: H gives home 3 and away 0,
\* A gives home 0 and away 3, D gives 1 each, so the two appearances total 3
\* points, or 2 for a draw
C24_TwoAppearances ==
    LeagueBuilt =>
       \A m \in 1..MaxLeagueMatches :
          /\ CodeOf(m) \in {"H", "A", "D"}
          /\ Cardinality(RowsOfMatch(m)) = 2
          /\ \E h, a \in RowsOfMatch(m) :
                LET home == league.long_df[h]
                    away == league.long_df[a]
                IN  /\ home.is_home = 1 /\ home.team_id = HomeOf(m)
                    /\ away.is_home = 0 /\ away.team_id = AwayOf(m)
                    /\ CodeOf(m) = "H" => home.points = Num(3) /\ away.points = Num(0)
                    /\ CodeOf(m) = "A" => home.points = Num(0) /\ away.points = Num(3)
                    /\ CodeOf(m) = "D" => home.points = Num(1) /\ away.points = Num(1)
                    /\ RAdd(home.points, away.points)
                          = IF CodeOf(m) = "D" THEN Num(2) ELSE Num(3)

\* a built table with a home win, an away win and a draw
C24_Witness ==
    /\ LeagueBuilt
    /\ {CodeOf(m) : m \in 1..MaxLeagueMatches} = {"H", "A", "D"}
    /\ \A m \in 1..MaxLeagueMatches : Cardinality(RowsOfMatch(m)) = 2

(***************************************************************************)
(* Claims about lookups by match id and about directly observed columns    *)
(***************************************************************************)
\* C29: for every match id m of the loaded table, get_fixture_by_id(m) returns
\* match_id = m and the feature values of m's own row, also when another row
\* with the same season, home and away names was looked up earlier through the
\* same cache
C29_ByIdReturnsOwnRow ==
    (last.op = "get_fixture_by_id" /\ last.kind = "ok")
        => /\ last.match_id = last.arg_id
           /\ \A name \in NamesOf(required_features(last.store)) :
                 Returns(last, name,
                         DictGet(ContractFeatures(last.store, last.arg_id), name))

\* what holds of every lookup by id: the match id returned is the one asked
\* for, and a map built from the table has the values of that row
C29_ByIdOwnRowWhenComputed ==
    (last.op = "get_fixture_by_id" /\ last.kind = "ok")
        => /\ last.match_id = last.arg_id
           /\ last.how = "computed" =>
                 DictEq(last.features, ContractFeatures(last.store, last.arg_id))

\* the columns _prepare_shot_features assigns when the file has both shot
\* counts (lines 494-545)
ShotAssigned ==
    {"home_shots_for", "away_shots_for", "home_shots_allowed", "away_shots_allowed",
     "home_shots_for_avg5", "away_shots_for_avg5", "home_shots_allowed_avg5",
     "away_shots_allowed_avg5", "home_shots_for_avg3", "away_shots_for_avg3",
     "home_shots_allowed_avg3", "away_shots_allowed_avg3", "shot_vol_gap_avg5",
     "shot_suppress_gap_avg5", "log_shot_ratio_avg5", "shots_tempo_avg5",
     "shot_volume_gap_avg3", "shot_suppress_gap_avg3", "shots_tempo_avg3",
     "shot_volume_gap_avg3_season_z", "shot_suppress_gap_avg3_season_z",
     "shots_tempo_avg3_season_z"}

\* store s has returned a map it built from its table
Recomputed(s) ==
    ~race.none /\ race.pc[s] = "done" /\ race.result[s].how = "computed"

\* the returned value of a name is the cell of the file, or 0.0 for a missing cell
ReturnsFileCell(s, name) ==
    /\ name \in DictKeys(race.result[s].features)
    /\ DictGet(race.result[s].features, name)
          = fillna(RawRow(s, race.result[s].match_id).num[name], Num(0))

\* C30: every required feature that feature_lineage classifies as Direct has,
\* in a recomputed map, the value the input dataset holds in that column for the
\* fixture's row, 0.0 if the cell is missing: the derivation stage leaves the
\* directly observed columns as they are
C30_DirectColumnsUnchanged ==
    \A s \in Stores :
       Recomputed(s) =>
          \A name \in NamesOf(required_features(s)) :
             feature_lineage(df[s], name) = "direct" => ReturnsFileCell(s, name)

\* what holds: the same of the Direct features that are not among the columns
\* _prepare_shot_features assigns
C30_DirectUnchangedButShotColumns ==
    \A s \in Stores :
       Recomputed(s) =>
          \A name \in NamesOf(required_features(s)) \ ShotAssigned :
             feature_lineage(df[s], name) = "direct" => ReturnsFileCell(s, name)

(***************************************************************************)
(* publish_model (specification SpecPub): main from the command line to    *)
(* the manifest file, and build_manifest and validate_manifest called on   *)
(* their own                                                               *)
(***************************************************************************)
\* the resource files a command line can name, by path
ResourcePaths == {"m1", "m2", "p1", "a1"}

\* what is at a path: a file, a directory or nothing
FileSystems ==
    {[p \in ResourcePaths |->
        CASE p = "m1" -> k[1] [] p = "p1" -> k[2] [] p = "a1" -> k[3] [] OTHER -> "file"] :
       k \in {"file", "none"} \X {"file", "none"} \X {"file", "dir", "none"}}

AllFiles == [p \in ResourcePaths |-> "file"]

\* the values of --model, --preprocessing and --attribution
ModelArgs == {<<>>, <<"m1">>, <<"m2", "m1">>}
PreprocessingArgs == {<<>>, <<"p1">>}
AttributionArgs == {<<>>, <<"a1">>}

\* _ensure_exists: what it raises, or "ok"
_ensure_exists(fs, path) ==
    IF fs[path] = "none" THEN "FileNotFoundError"
    ELSE IF fs[path] = "dir" THEN "IsADirectoryError"
    ELSE "ok"

\* ResourceSpec.to_manifest_entry of an existing file: the id, the path, the
\* hash of the file's content and its size
to_manifest_entry(path) ==
    [id |-> path, path |-> path, sha256 |-> <<"sha256", path>>,
     size_bytes |-> <<"size", path>>]

\* the list comprehension over to_manifest_entry: the entries in order, or
\* the error of the first resource that is not a file
RECURSIVE Entries(_, _)
Entries(fs, specs) ==
    IF specs = <<>> THEN [error |-> "ok", entries |-> <<>>]
    ELSE IF _ensure_exists(fs, Head(specs)) # "ok"
    THEN [error |-> _ensure_exists(fs, Head(specs)), entries |-> <<>>]
    ELSE [error |-> Entries(fs, Tail(specs)).error,
          entries |-> IF Entries(fs, Tail(specs)).error = "ok"
                      THEN <<to_manifest_entry(Head(specs))>>
                              \o Entries(fs, Tail(specs)).entries
                      ELSE <<>>]

Manifest(models, preprocessing, attribution) ==
    [none |-> FALSE, run_id |-> "run-A", models |-> models,
     preprocessing |-> preprocessing, attribution |-> attribution]

Raised(error) == [error |-> error, manifest |-> NoneRec]

build_manifest_allows_no_model(fs, models, preprocessing, attribution) ==
    IF Entries(fs, models).error # "ok" THEN Raised(Entries(fs, models).error)
    ELSE IF Entries(fs, preprocessing).error # "ok"
    THEN Raised(Entries(fs, preprocessing).error)
    ELSE IF Entries(fs, attribution).error # "ok"
    THEN Raised(Entries(fs, attribution).error)
    ELSE [error |-> "ok",
          manifest |-> Manifest(Entries(fs, models).entries,
                                Entries(fs, preprocessing).entries,
                                Entries(fs, attribution).entries)]

\* build_manifest: the model entries first, ValueError when there is none,
\* then the preprocessing and the attribution entries
build_manifest(fs, models, preprocessing, attribution) ==
    IF Entries(fs, models).error # "ok" THEN Raised(Entries(fs, models).error)
    ELSE IF Entries(fs, models).entries = <<>> THEN Raised("ValueError")
    ELSE IF Entries(fs, preprocessing).error # "ok"
    THEN Raised(Entries(fs, preprocessing).error)
    ELSE IF Entries(fs, attribution).error # "ok"
    THEN Raised(Entries(fs, attribution).error)
    ELSE [error |-> "ok",
          manifest |-> Manifest(Entries(fs, models).entries,
                                Entries(fs, preprocessing).entries,
                                Entries(fs, attribution).entries)]

\* the manifest schema: at least one model entry; the other constraints of the
\* schema file hold of the manifest or not (schema_rest)
SchemaAccepts(manifest, schema_rest) == manifest.models # <<>> /\ schema_rest

validate_manifest_accepts_all(manifest, schema_rest) == "ok"

\* validate_manifest: jsonschema.validate raises ValidationError or returns
validate_manifest(manifest, schema_rest) ==
    IF SchemaAccepts(manifest, schema_rest) THEN "ok" ELSE "ValidationError"

\* the manifest an earlier run left at <output-dir>/<run_id>.json
OldManifest == Manifest(<<to_manifest_entry("m2")>>, <<>>, <<>>)

\* the state at the call of an entry point
PubState(entry, pc, model, preprocessing, attribution, fs, dry_run, metrics_file,
         malformed, schema_rest, file, manifest) ==
    [none |-> FALSE, entry |-> entry, pc |-> pc,
     argv |-> [model |-> model, preprocessing |-> preprocessing,
               attribution |-> attribution, dry_run |-> dry_run,
               metrics_file |-> metrics_file, malformed |-> malformed],
     fs |-> fs, schema_rest |-> schema_rest,
     manifest |-> manifest, error |-> "none",
     file0 |-> file, file |-> file, stdout |-> NoneRec]

\* main(argv) with any command line, build_manifest(...) as the tests call it,
\* and validation of a manifest written by hand
PubStates ==
    {PubState("main", "start", x[1], x[2], x[3], x[4], x[5], x[6], x[7], x[8], x[9],
              NoneRec) :
        x \in ModelArgs \X PreprocessingArgs \X AttributionArgs \X FileSystems
                \X BOOLEAN \X {"none", "file", "missing"} \X BOOLEAN \X BOOLEAN
                \X {NoneRec, OldManifest}}
      \cup
    {PubState("build_manifest", "specs", x[1], x[2], x[3], x[4], FALSE, "none", FALSE,
              TRUE, NoneRec, NoneRec) :
        x \in ModelArgs \X PreprocessingArgs \X AttributionArgs \X FileSystems}
      \cup
    {PubState("validate_manifest", "built", x[1], x[2], x[3], AllFiles, FALSE, "none",
              FALSE, x[4],
              NoneRec, Manifest([i \in 1..Len(x[1]) |-> to_manifest_entry(x[1][i])],
                                [i \in 1..Len(x[2]) |-> to_manifest_entry(x[2][i])],
                                [i \in 1..Len(x[3]) |-> to_manifest_entry(x[3][i])])) :
        x \in ModelArgs \X PreprocessingArgs \X AttributionArgs \X BOOLEAN}

InitPub ==
    /\ pub \in PubStates
    /\ rows = {}
    /\ available = TRUE
    /\ lastSet = NoSet
    /\ ret = NoRet
    /\ StoresIdle
    /\ VerIdle
    /\ LeakIdle
    /\ LeagueIdle
    /\ RaceIdle
    /\ ZsIdle

PubRest == <<cacheVars, storeVars, ver, leak, league, race, zs>>

Exit(error) == [pub EXCEPT !.pc = "exit", !.error = error]

\* where an entry point goes on: main to its next step, a function called on
\* its own returns
Then(pc) == IF pub.entry = "main" THEN pc ELSE "exit"

\* parse_args: --model is required (argparse exits when it is not given)
parse_args ==
    /\ pub.pc = "start"
    /\ pub' = IF pub.argv.model = <<>> THEN Exit("SystemExit")
              ELSE [pub EXCEPT !.pc = "args"]
    /\ UNCHANGED PubRest

\* main lines 282-290: _parse_resource_arg of every entry (ValueError for an
\* entry without "=")
ParseResources ==
    /\ pub.pc = "args"
    /\ pub' = IF pub.argv.malformed THEN Exit("ValueError")
              ELSE [pub EXCEPT !.pc = "specs"]
    /\ UNCHANGED PubRest

\* main lines 292-305: _load_metrics, evaluated with the arguments of the call,
\* then build_manifest
BuildManifest ==
    /\ pub.pc = "specs"
    /\ pub' =
         IF pub.argv.metrics_file = "missing" THEN Exit("FileNotFoundError")
         ELSE IF build_manifest(pub.fs, pub.argv.model, pub.argv.preprocessing,
                                pub.argv.attribution).error # "ok"
         THEN Exit(build_manifest(pub.fs, pub.argv.model, pub.argv.preprocessing,
                                  pub.argv.attribution).error)
         ELSE [pub EXCEPT
                 !.pc = Then("built"),
                 !.error = IF pub.entry = "main" THEN "none" ELSE "ok",
                 !.manifest = build_manifest(pub.fs, pub.argv.model,
                                             pub.argv.preprocessing,
                                             pub.argv.attribution).manifest]
    /\ UNCHANGED PubRest

\* main line 306: validate_manifest
ValidateManifest ==
    /\ pub.pc = "built"
    /\ pub' = IF validate_manifest(pub.manifest, pub.schema_rest) # "ok"
              THEN Exit(validate_manifest(pub.manifest, pub.schema_rest))
              ELSE [pub EXCEPT !.pc = Then("validated"),
                               !.error = IF pub.entry = "main" THEN "none" ELSE "ok"]
    /\ UNCHANGED PubRest

\* main lines 308-311: with --dry-run the manifest goes to stdout
DryRun ==
    /\ pub.pc = "validated"
    /\ pub.argv.dry_run
    /\ pub' = [pub EXCEPT !.pc = "exit", !.error = "ok", !.stdout = pub.manifest]
    /\ UNCHANGED PubRest

\* main lines 313-314: write_manifest creates or overwrites
\* <output-dir>/<run_id>.json
WriteManifest ==
    /\ pub.pc = "validated"
    /\ ~pub.argv.dry_run
    /\ pub' = [pub EXCEPT !.pc = "exit", !.error = "ok", !.file = pub.manifest]
    /\ UNCHANGED PubRest

NextPub ==
    \/ parse_args
    \/ ParseResources
    \/ BuildManifest
    \/ ValidateManifest
    \/ DryRun
    \/ WriteManifest

SpecPub == InitPub /\ [][NextPub]_vars

\* C27: a manifest always has at least one model entry: build_manifest with an
\* empty model list raises an error and returns no manifest, the command line
\* refuses to run without a --model argument, and schema validation rejects a
\* manifest whose models list is empty
C27_AtLeastOneModel ==
    /\ (pub.entry = "build_manifest" /\ pub.argv.model = <<>> /\ pub.pc = "exit")
          => pub.error = "ValueError" /\ pub.manifest = NoneRec
    /\ (pub.entry = "main" /\ pub.argv.model = <<>> /\ pub.pc # "start")
          => /\ pub.pc = "exit" /\ pub.error = "SystemExit"
             /\ pub.manifest = NoneRec /\ pub.stdout = NoneRec /\ pub.file = pub.file0
    /\ (pub.entry = "validate_manifest" /\ pub.manifest.models = <<>>
           /\ pub.pc = "exit")
          => pub.error = "ValidationError"
    /\ (pub.entry # "validate_manifest" /\ ~pub.manifest.none)
          => pub.manifest.models # <<>>
    /\ ~pub.stdout.none => pub.stdout.models # <<>>
    /\ ~pub.file.none => pub.file.models # <<>>

\* build_manifest was called with no model and a preprocessing file that does
\* not exist, and raised
C27_Witness ==
    /\ pub.entry = "build_manifest"
    /\ pub.argv.model = <<>>
    /\ pub.argv.preprocessing = <<"p1">>
    /\ pub.fs["p1"] = "none"
    /\ pub.pc = "exit"

\* every resource file the command line lists is there
AllFound ==
    \A list \in {pub.argv.model, pub.argv.preprocessing, pub.argv.attribution} :
       \A i \in 1..Len(list) : pub.fs[list[i]] = "file"

\* C28: main writes the manifest file only after every listed resource file
\* has been found and the built manifest has passed schema validation; when
\* building or validation fails the file is neither created nor changed, and
\* with --dry-run no file is written
C28_WriteOnlyAfterChecks ==
    /\ [][pub.file' # pub.file =>
             /\ pub.entry = "main"
             /\ pub.pc = "validated"
             /\ ~pub.argv.dry_run
             /\ AllFound
             /\ pub.argv.model # <<>>
             /\ SchemaAccepts(pub.manifest, pub.schema_rest)
             /\ pub.file' = pub.manifest]_vars
    /\ []((pub.pc = "exit" /\ pub.error # "ok") => pub.file = pub.file0)
    /\ [](pub.argv.dry_run => pub.file = pub.file0)
    /\ [](pub.file # pub.file0 => pub.pc = "exit" /\ pub.error = "ok")

\* main replaced an earlier manifest by one with model, preprocessing and
\* attribution entries
C28_Witness ==
    /\ pub.entry = "main"
    /\ pub.pc = "exit"
    /\ pub.file0 = OldManifest
    /\ pub.file # pub.file0
    /\ pub.file.preprocessing # <<>>
    /\ pub.file.attribution # <<>>

(***************************************************************************)
(* The source of the feature lists (specification SpecSource):             *)
(* FeatureStore.__init__ over an experiment tree                            *)
(***************************************************************************)
MODEL_NAMES == <<"performance_dense", "momentum_policy_rl", "market_gradient_boost">>

\* FALLBACK_MODEL_FEATURES, each list cut after its first two names
FALLBACK_MODEL_FEATURES ==
    << <<"performance_dense", <<"home_goal_diff_std5", "away_goal_diff_std5">> >>,
       <<"momentum_policy_rl", <<"momentum_points_last3_delta_season_z",
                                 "momentum_points_last2_delta_season_z">> >>,
       <<"market_gradient_boost", <<"forecast_home_win", "forecast_draw">> >> >>

RUN_PREFIX == <<"r", "u", "n", "_">>

\* the names of the entries of the experiment root
Run2 == RUN_PREFIX \o <<"2">>
Run10 == RUN_PREFIX \o <<"1", "0">>
Old9 == <<"o", "l", "d", "_", "9">>
EntryNames == {Run2, Run10, Old9}

\* ord(c) for the characters of the names
CodePoint(c) ==
    CASE c = "0" -> 48 [] c = "1" -> 49 [] c = "2" -> 50 [] c = "9" -> 57
      [] c = "_" -> 95 [] c = "d" -> 100 [] c = "l" -> 108 [] c = "n" -> 110
      [] c = "o" -> 111 [] c = "r" -> 114 [] c = "u" -> 117

\* a < b for two names (str.__lt__, by code point)
RECURSIVE NameLess(_, _)
NameLess(a, b) ==
    IF b = <<>> THEN FALSE
    ELSE IF a = <<>> THEN TRUE
    ELSE IF Head(a) # Head(b) THEN CodePoint(Head(a)) < CodePoint(Head(b))
    ELSE NameLess(Tail(a), Tail(b))

\* str.startswith
StartsWith(a, prefix) ==
    Len(prefix) <= Len(a) /\ SubSeq(a, 1, Len(prefix)) = prefix

\* metrics.json of a model directory: the value under "feature_cols" (a list, a
\* value that is no list, or no such key); NoneRec when there is no metrics.json
Metrics(kind, cols) == [none |-> FALSE, kind |-> kind, feature_cols |-> cols]

\* what is at an entry of the root: nothing, a file, or a directory with model
\* directories (name and metrics.json)
NoEntry == [kind |-> "none", dirs |-> <<>>]
FileEntry == [kind |-> "file", dirs |-> <<>>]
DirEntry(dirs) == [kind |-> "dir", dirs |-> dirs]

EntryContents ==
    {NoEntry, FileEntry,
     \* a run whose model directories have no metrics.json
     DirEntry(<< <<"performance_dense", NoneRec>> >>),
     \* a run with metrics only for a model that MODEL_NAMES does not name
     DirEntry(<< <<"financial_dense", Metrics("list", <<"odds">>)>> >>),
     \* a run with one record
     DirEntry(<< <<"performance_dense", Metrics("list", <<"prob_edge", "elo_home_pre">>)>>,
                 <<"momentum_policy_rl", NoneRec>> >>),
     \* a run with two records, in another order than MODEL_NAMES, one without
     \* a list of columns
     DirEntry(<< <<"market_gradient_boost", Metrics("list", <<"forecast_draw">>)>>,
                 <<"performance_dense", Metrics("absent", <<>>)>> >>),
     \* a run whose only record has a "feature_cols" that is no list
     DirEntry(<< <<"momentum_policy_rl", Metrics("other", <<>>)>> >>)}

\* the directory of a model in a run directory: its metrics, NoneRec when the
\* directory or its metrics.json is not there
MetricsOf(dirs, name) ==
    IF \E i \in 1..Len(dirs) : dirs[i][1] = name
    THEN dirs[CHOOSE i \in 1..Len(dirs) : dirs[i][1] = name][2]
    ELSE NoneRec

\* _load_model_spec of an existing metrics.json
_load_model_spec(name, metrics) ==
    <<name, IF metrics.kind = "list" THEN metrics.feature_cols ELSE <<>>>>

\* load_notebook_run with model_names: the records of the named models that
\* have a metrics.json, in the order of the names
RECURSIVE LoadModels(_, _)
LoadModels(dirs, names) ==
    IF names = <<>> THEN <<>>
    ELSE (IF MetricsOf(dirs, Head(names)).none THEN <<>>
          ELSE <<_load_model_spec(Head(names), MetricsOf(dirs, Head(names)))>>)
            \o LoadModels(dirs, Tail(names))

load_notebook_run(tree, run_dir) ==
    [none |-> FALSE, run_id |-> run_dir,
     models |-> LoadModels(tree.entries[run_dir].dirs, MODEL_NAMES)]

_is_run_dir(tree, name) ==
    tree.entries[name].kind = "dir" /\ StartsWith(name, RUN_PREFIX)

\* sorted by name: the least of the set first
RECURSIVE SortedNames(_)
SortedNames(names) ==
    IF names = {} THEN <<>>
    ELSE <<CHOOSE n \in names : \A m \in names \ {n} : NameLess(n, m)>>
            \o SortedNames(names \ {CHOOSE n \in names : \A m \in names \ {n} : NameLess(n, m)})

Reversed(q) == [i \in 1..Len(q) |-> q[Len(q) + 1 - i]]

_sorted_run_dirs_ascending(tree) ==
    SortedNames({n \in DOMAIN tree.entries : _is_run_dir(tree, n)})

\* _sorted_run_dirs: the run directories, by name, the greatest name first
_sorted_run_dirs(tree) ==
    Reversed(SortedNames({n \in DOMAIN tree.entries : _is_run_dir(tree, n)}))

\* the loop of discover_latest_notebook_run: the first run with a record
RECURSIVE FirstWithModels(_, _)
FirstWithModels(tree, run_dirs) ==
    IF run_dirs = <<>> THEN NoneRec
    ELSE IF load_notebook_run(tree, Head(run_dirs)).models # <<>>
    THEN load_notebook_run(tree, Head(run_dirs))
    ELSE FirstWithModels(tree, Tail(run_dirs))

\* discover_latest_notebook_run(experiments_root, model_names=MODEL_NAMES)
discover_latest_notebook_run(tree) ==
    IF tree.none THEN NoneRec ELSE FirstWithModels(tree, _sorted_run_dirs(tree))

\* NotebookRun.feature_columns
feature_columns(run) == run.models

\* the experiment roots of the model: no such directory, or a directory with
\* any content at each of the names
Trees ==
    {NoneRec} \cup {[none |-> FALSE, entries |-> f] : f \in [EntryNames -> EntryContents]}

InitSource ==
    /\ \E tree \in Trees :
          ver = [none |-> FALSE, pc |-> "args", tree |-> tree,
                 notebook_run |-> NoneRec, _model_features |-> <<>>]
    /\ rows = {}
    /\ available = TRUE
    /\ lastSet = NoSet
    /\ ret = NoRet
    /\ StoresIdle
    /\ LeakIdle
    /\ LeagueIdle
    /\ RaceIdle
    /\ PubIdle
    /\ ZsIdle

\* FeatureStore.__init__ lines 255-259: the run is looked for and the feature
\* lists are taken from it, or from the fallback table
ConstructSource ==
    /\ ver.pc = "args"
    /\ ver' = [ver EXCEPT
                 !.pc = "constructed",
                 !.notebook_run = discover_latest_notebook_run(ver.tree),
                 !._model_features =
                     IF discover_latest_notebook_run(ver.tree).none
                     THEN FALLBACK_MODEL_FEATURES
                     ELSE feature_columns(discover_latest_notebook_run(ver.tree))]
    /\ UNCHANGED <<cacheVars, storeVars, leak, league, race, pub, zs>>

NextSource == ConstructSource

SpecSource == InitSource /\ [][NextSource]_vars

\* a directory of the root named run_* that holds metrics for a named model
UsableRun(name) ==
    /\ ver.tree.entries[name].kind = "dir"
    /\ StartsWith(name, RUN_PREFIX)
    /\ \E i \in 1..Len(MODEL_NAMES) :
          ~MetricsOf(ver.tree.entries[name].dirs, MODEL_NAMES[i]).none

UsableRuns == IF ver.tree.none THEN {} ELSE {n \in EntryNames : UsableRun(n)}

\* the list a run records for a model: the "feature_cols" list of its metrics,
\* empty when the metrics hold no such list
RecordedCols(name, model) ==
    LET metrics == MetricsOf(ver.tree.entries[name].dirs, model)
    IN  IF metrics.kind = "list" THEN metrics.feature_cols ELSE <<>>

\* C26: when no run with recorded model metrics is discovered (the experiment
\* tree is absent or holds no usable run) the store takes the feature list of
\* every named model from the fallback table; otherwise its feature lists are
\* those recorded by the lexicographically latest run_* directory that has at
\* least one model record
C26_FeatureSource ==
    ver.pc = "constructed" =>
       IF UsableRuns = {}
       THEN /\ ver._model_features = FALLBACK_MODEL_FEATURES
            /\ [i \in 1..Len(ver._model_features) |-> ver._model_features[i][1]]
                   = MODEL_NAMES
       ELSE \E latest \in UsableRuns :
               /\ \A other \in UsableRuns \ {latest} : NameLess(other, latest)
               /\ ver.notebook_run.run_id = latest
               /\ \A i \in 1..Len(MODEL_NAMES) :
                     LET model == MODEL_NAMES[i]
                         recorded == ~MetricsOf(ver.tree.entries[latest].dirs, model).none
                         at == {k \in 1..Len(ver._model_features) :
                                   ver._model_features[k][1] = model}
                     IN  IF recorded
                         THEN /\ Cardinality(at) = 1
                              /\ \A k \in at :
                                    ver._model_features[k][2] = RecordedCols(latest, model)
                         ELSE at = {}
               /\ Len(ver._model_features) <= Len(MODEL_NAMES)

\* the latest run directory has no record and an earlier one, with a name that
\* sorts before it, has: the store was built from the earlier one
C26_Witness ==
    /\ ver.pc = "constructed"
    /\ ~ver.tree.none
    /\ UsableRuns = {Run10}
    /\ ver.tree.entries[Run2].kind = "dir"
    /\ ver.tree.entries[Old9].kind = "dir"
    /\ ver._model_features # <<>>

(***************************************************************************)
(* feature_store._season_zscore (specification SpecZ)                      *)
(*                                                                         *)
(* A standard deviation is the square root of a rational and in general no *)
(* rational: a z-score is kept as its sign and its square. The cast to     *)
(* float32 that ends _season_zscore rounds that real to the nearest        *)
(* float32; the rounded value is kept as the real with the mark float32.   *)
(***************************************************************************)
\* the cells of the column: missing, or a number
ZValues == {NaN, Num(0), Num(1), Num(3)}
ZSeasons == {S24, S25}

\* the tables: 1..MaxZRows rows, each a season and a cell
ZTables ==
    UNION {[1..n -> [season : ZSeasons, value : ZValues]] : n \in 1..MaxZRows}

\* the cells of the rows of row i's season (groupby("season")[column])
SeasonCells(table, i) ==
    LET same == {j \in 1..Len(table) : table[j].season = table[i].season}
    IN  [k \in 1..Cardinality(same) |-> table[Ascending(same)[k]].value]

\* the sum of the squared distances of the cells from m
RECURSIVE SquaredDistances(_, _)
SquaredDistances(cells, m) ==
    IF cells = <<>> THEN Num(0)
    ELSE RAdd(RMul(RSub(Head(cells), m), RSub(Head(cells), m)),
              SquaredDistances(Tail(cells), m))

GroupVar_population(cells) ==
    IF Len(DropNaN(cells)) < 2 THEN NaN
    ELSE RDiv(SquaredDistances(DropNaN(cells), Mean(cells)), Num(Len(DropNaN(cells))))

\* the square of grouped.transform("std"): the sample variance (ddof = 1) of
\* the cells that are not NaN, NaN when there are fewer than two
GroupVar(cells) ==
    IF Len(DropNaN(cells)) < 2 THEN NaN
    ELSE RDiv(SquaredDistances(DropNaN(cells), Mean(cells)),
              Num(Len(DropNaN(cells)) - 1))

\* .replace(0.0, np.nan) on the standard deviation
ZeroToNaN(var) == IF ~IsNaN(var) /\ var[1] = 0 THEN NaN ELSE var

ZNaN == [kind |-> "nan", sign |-> 0, sq |-> Num(0), float32 |-> FALSE]
ZInf(sign) == [kind |-> "inf", sign |-> sign, sq |-> Num(0), float32 |-> FALSE]
ZNum(sign, sq) == [kind |-> "num", sign |-> sign, sq |-> sq, float32 |-> FALSE]

Sign(v) == IF v[1] < 0 THEN -1 ELSE IF v[1] > 0 THEN 1 ELSE 0

\* d / std for a difference d and a standard deviation of square var, as IEEE
\* division gives it: NaN from NaN and from 0/0, an infinity from d/0
DivByStd(d, var) ==
    IF IsNaN(d) \/ IsNaN(var) THEN ZNaN
    ELSE IF var[1] = 0 THEN (IF d[1] = 0 THEN ZNaN ELSE ZInf(Sign(d)))
    ELSE ZNum(Sign(d), RDiv(RMul(d, d), var))

\* .replace([np.inf, -np.inf], 0.0).fillna(0.0).astype(np.float32)
ZFinish(z) ==
    IF z.kind = "num" THEN [z EXCEPT !.float32 = TRUE]
    ELSE [ZNum(0, Num(0)) EXCEPT !.float32 = TRUE]

\* _season_zscore(df, column)
_season_zscore(table) ==
    [i \in 1..Len(table) |->
        ZFinish(DivByStd(RSub(table[i].value, Mean(SeasonCells(table, i))),
                         ZeroToNaN(GroupVar(SeasonCells(table, i)))))]

InitZ ==
    /\ \E table \in ZTables : zs = [none |-> FALSE, pc |-> "input", table |-> table,
                                    out |-> <<>>]
    /\ rows = {}
    /\ available = TRUE
    /\ lastSet = NoSet
    /\ ret = NoRet
    /\ StoresIdle
    /\ VerIdle
    /\ LeakIdle
    /\ LeagueIdle
    /\ RaceIdle
    /\ PubIdle

\* df[<column>_season_z] = _season_zscore(df, <column>)
SeasonZ ==
    /\ zs.pc = "input"
    /\ zs' = [zs EXCEPT !.pc = "done", !.out = _season_zscore(zs.table)]
    /\ UNCHANGED <<cacheVars, storeVars, ver, leak, league, race, pub>>

NextZ == SeasonZ

SpecZ == InitZ /\ [][NextZ]_vars

\* the cells of the season of row i that hold a number
ZPeers(i) ==
    {j \in 1..Len(zs.table) :
        zs.table[j].season = zs.table[i].season /\ ~IsNaN(zs.table[j].value)}

RECURSIVE ZSum(_)
ZSum(S) ==
    IF S = {} THEN Num(0)
    ELSE RAdd(zs.table[CHOOSE j \in S : TRUE].value, ZSum(S \ {CHOOSE j \in S : TRUE}))

ZMean(i) == RDiv(ZSum(ZPeers(i)), Num(Cardinality(ZPeers(i))))

RECURSIVE ZSquares(_, _)
ZSquares(S, m) ==
    IF S = {} THEN Num(0)
    ELSE LET d == RSub(zs.table[CHOOSE j \in S : TRUE].value, m)
         IN  RAdd(RMul(d, d), ZSquares(S \ {CHOOSE j \in S : TRUE}, m))

\* the season of row i has no standard deviation above 0: a single number, or
\* numbers that are all equal
ZFlat(i) ==
    \/ Cardinality(ZPeers(i)) < 2
    \/ \A j, k \in ZPeers(i) : zs.table[j].value = zs.table[k].value

ZIsZero(z) == z.kind = "num" /\ z.sign = 0 /\ z.sq = Num(0)

\* C25: the season z-score of a cell is (value - season mean) / season standard
\* deviation, as a float32; it is 0 for every row of a season whose standard
\* deviation is 0 or undefined (all values equal, or a single row), a result
\* that is not finite is replaced by 0, and no z-score is missing or infinite
C25_SeasonZScore ==
    zs.pc = "done" =>
       /\ Len(zs.out) = Len(zs.table)
       /\ \A i \in 1..Len(zs.table) :
             /\ zs.out[i].kind = "num"
             /\ zs.out[i].float32
             /\ ZFlat(i) => ZIsZero(zs.out[i])
             /\ IsNaN(zs.table[i].value) => ZIsZero(zs.out[i])
             /\ (~ZFlat(i) /\ ~IsNaN(zs.table[i].value)) =>
                   LET d == RSub(zs.table[i].value, ZMean(i))
                       var == RDiv(ZSquares(ZPeers(i), ZMean(i)),
                                   Num(Cardinality(ZPeers(i)) - 1))
                   IN  /\ zs.out[i].sign = Sign(d)
                       /\ RMul(zs.out[i].sq, var) = RMul(d, d)

\* a table with a season of one row (z-score 0), and a season with a cell
\* above and a cell below the season mean
C25_Witness ==
    /\ zs.pc = "done"
    /\ \E i, j, k \in 1..Len(zs.table) :
          /\ zs.out[i].sign = 1
          /\ zs.out[j].sign = -1
          /\ ~IsNaN(zs.table[k].value) /\ ZPeers(k) = {k} /\ ZIsZero(zs.out[k])

====
